---- MODULE Spec2Model ----
(***************************************************************************)
(* A model of the automation scripts of the LDM repository:                *)
(*   - noaaport/noaaportBlender.py and noaaportBlenderPipe.py: the command *)
(*     builders and the main routine of the ingester/blender launcher;     *)
(*   - mcast_lib/FMTP-LDM7/LogParser/per-file-latency-parser.py: the log   *)
(*     scan (parseMLDM, parseBackstop, extractLog);                        *)
(*   - the OESS circuit scripts provision.py, remove.py, destroy.py, the   *)
(*     variants of edit.py and the account module they read;               *)
(*   - scripts/ldmadmin.py: LDMCommandsHandler.execute and its lock;       *)
(*   - Fabric/deploy_LDM7.py and deploy_LDM6.py: the deploy task;          *)
(*   - scour/testCscour.py: the two scenarios and their assertions;        *)
(*   - noaaport/blenderAdmin.py: the prompts of checkProcessAndKill.       *)
(* Each group has its own specification (SpecBlender, SpecLog, SpecOess,   *)
(* SpecEdit, SpecLdm, SpecDeploy, SpecScour, SpecAdmin); the variables of  *)
(* the other groups are held at their idle values.                         *)
(*                                                                         *)
(* Python values: a str is a TLA+ string, a list a sequence, a dict a      *)
(* record or a function on its keys, None the record PyNone (or the string *)
(* NoneStr where the other values are strings).  A shell command line is   *)
(* the sequence of its words, as the shell splits it.                      *)
(***************************************************************************)
EXTENDS Integers, Sequences, FiniteSets, TLC

VARIABLES
    \* ---- noaaportBlender.py -------------------------------------------
    nbPc,            \* position of main()
    nbExc,           \* the exception main() ended with, or NoneStr
    bound,           \* local names of main() bound so far
    cliArg,          \* vars(args) returned by cliParser
    inst,            \* the NoaaportBlender instance's attributes
    noaaportCmd,     \* main()'s local noaaportCmd
    blenderCmd,      \* main()'s local blenderCmd
    spawned,         \* command lines handed to subprocess.Popen, in order
    testNoaaportCmds,\* result of prepareTestNoaaportCmdsList, or <<>>
    testBlenderCmds, \* result of prepareTestBlenderCmdsList, or <<>>
    \* ---- noaaportBlenderPipe.py ---------------------------------------
    pipePc,          \* position of main()
    ingestCmdList,   \* main()'s local ingestCmdList
    blendCmdList,    \* main()'s local blendCmdList
    printed,         \* lines printed by executeNoaaportIngester/executeBlender
    \* ---- the file system both scripts share ---------------------------
    mkfifoWorks,     \* whether the mkfifo command succeeds in this run
    fifos,           \* paths that exist
    \* ---- per-file-latency-parser.py: extractLog ------------------------
    logfile,         \* the lines of the log file, each split into columns
    logPc,           \* "scan", "returned" or "raised"
    logExc,          \* the exception the scan ended with, or NoneStr
    logI,            \* 1 + the number of lines scanned
    complete_set,    \* extractLog's complete_set
    complete_dict,   \* extractLog's complete_dict
    \* ---- provision.py, remove.py, destroy.py ---------------------------
    script,          \* which script runs
    oPc,             \* "start", "request", "report", "done" or "raised"
    oExc,            \* the exception the script ended with, or NoneStr
    ct_id,           \* what getCtID returned
    path,            \* the branch taken: "new", "add", "del" or "remove_circuit"
    reply,           \* the outcome of the script's last HTTP request
    jsonData,        \* the script's jsonData, or Unbound
    searchResults,   \* the script's searchResults, or Unbound
    stdout,          \* lines written to sys.stdout
    stderr,          \* lines written to sys.stderr
    circuit_id_log,  \* lines written to circuit_id.log
    ulogger,         \* messages handed to the ulogger command
    accountModule,   \* the account.py the script's "import account" finds
    existing,        \* 'results' of get_existing_circuits
    endpoints,       \* number of endpoint nodes of the circuit, before
    issued,          \* remove_circuit / provision_circuit / edit_endpoint calls
    remaining,       \* number of endpoint nodes of the circuit, after
    \* ---- edit.py -------------------------------------------------------
    edScript,        \* which edit.py runs
    edPc,            \* "start", "lookup", "branch", "provision", "done", "raised"
    edExc,           \* the exception the run ended with, or NoneStr
    edArgs,          \* the function and the endpoint of the command line
    accountFile,     \* what the account file of the run holds
    cred,            \* the script's (username, passwd)
    circuit,         \* the circuit get_circuit_details describes
    node,            \* the script's list node
    interface,       \* the script's list interface
    tag,             \* the script's list tag
    link,            \* the script's list link
    requests,        \* the requests sent, in order
    \* ---- ldmadmin.py: LDMCommandsHandler.execute -----------------------
    ldCmd,           \* execute's parameter cmd
    isLockingRequired, \* what CLIParser().isLockingRequired(cmd) returns
    getLockReturn,   \* what envt.getLock() returns in this run
    ldPc,            \* position of execute
    toLockOrNot,     \* execute's local toLockOrNot
    lockHeld,        \* whether this run holds the lock
    status,          \* execute's local status
    returned,        \* what execute returned, or NoneStr
    ldCalls,         \* the calls of getLock, cmdDispatcher, releaseLock
    dispatched,      \* the commands dispatched, with the lock state
    \* ---- Fabric: deploy ------------------------------------------------
    dpScript,        \* which fabfile runs
    hosts,           \* env.hosts
    home,            \* per host, the paths that exist under /home/ldm
    dpHost,          \* index of the host deploy runs on
    dpStep,          \* index of the task of deploy that runs next
    dpPc,            \* "run", "aborted" or "done"
    ran,             \* per host, the tasks called so far
    conf,            \* per host, what this run wrote into etc/ldmd.conf
    \* ---- scour/testCscour.py -------------------------------------------
    scenario,        \* the scenario main runs
    tmp,             \* the file system: what each path is
    scPc,            \* "directories", "files", "scour", "assert" or "done"
    scStatus,        \* what the assertion method returned, or NoneStr
    scPrinted,       \* the assertion lines printed
    \* ---- noaaport/blenderAdmin.py --------------------------------------
    psLines,         \* the lines check_output returned
    alive,           \* the process ids that are running
    adPc,            \* "start", "line" or "done"
    adIndex,         \* the line the loop is at
    adExc,           \* the exception the except clause swallowed, or NoneStr
    prompts,         \* the prompts shown by input() and their answers
    killed           \* the process ids p.kill() ended

blenderVars == <<nbPc, nbExc, bound, cliArg, inst, noaaportCmd, blenderCmd,
                 spawned, testNoaaportCmds, testBlenderCmds, pipePc,
                 ingestCmdList, blendCmdList, printed, mkfifoWorks, fifos>>

logVars == <<logfile, logPc, logExc, logI, complete_set, complete_dict>>

oessVars == <<script, oPc, oExc, ct_id, path, reply, jsonData, searchResults,
              stdout, stderr, circuit_id_log, ulogger, accountModule,
              existing, endpoints, issued, remaining>>

editVars == <<edScript, edPc, edExc, edArgs, accountFile, cred, circuit, node,
              interface, tag, link, requests>>

ldmVars == <<ldCmd, isLockingRequired, getLockReturn, ldPc, toLockOrNot,
             lockHeld, status, returned, ldCalls, dispatched>>

deployVars == <<dpScript, hosts, home, dpHost, dpStep, dpPc, ran, conf>>

scourVars == <<scenario, tmp, scPc, scStatus, scPrinted>>

adminVars == <<psLines, alive, adPc, adIndex, adExc, prompts, killed>>

vars == <<blenderVars,
         logVars,
         oessVars,
         editVars,
         ldmVars,
         deployVars,
         scourVars,
         adminVars>>

\* What the steps of one group of scripts leave alone.
NotBlender ==
    <<logVars,
      oessVars,
      editVars,
      ldmVars,
      deployVars,
      scourVars,
      adminVars>>
NotLog ==
    <<blenderVars,
      oessVars,
      editVars,
      ldmVars,
      deployVars,
      scourVars,
      adminVars>>
NotOess ==
    <<blenderVars,
      logVars,
      editVars,
      ldmVars,
      deployVars,
      scourVars,
      adminVars>>
NotEdit ==
    <<blenderVars,
      logVars,
      oessVars,
      ldmVars,
      deployVars,
      scourVars,
      adminVars>>
NotLdm ==
    <<blenderVars,
      logVars,
      oessVars,
      editVars,
      deployVars,
      scourVars,
      adminVars>>
NotDeploy ==
    <<blenderVars,
      logVars,
      oessVars,
      editVars,
      ldmVars,
      scourVars,
      adminVars>>
NotScour ==
    <<blenderVars,
      logVars,
      oessVars,
      editVars,
      ldmVars,
      deployVars,
      adminVars>>
NotAdmin ==
    <<blenderVars,
      logVars,
      oessVars,
      editVars,
      ldmVars,
      deployVars,
      scourVars>>
\* (end of the frames)

NoneStr == "<None>"

\* ------------------------------------------------------------------------
\* Bounds
\* ------------------------------------------------------------------------
MaxFanout == 2
MaxLines == 3
MaxNodes == 3
MaxEndpoints == 3
MaxHosts == 2
MaxProcs == 3

\* ------------------------------------------------------------------------
\* Shell words of a command line
\* ------------------------------------------------------------------------
\* The word that follows the redirection operator op, or NoneStr.
RedirectOf(cmd, op) ==
    IF \E i \in 1..(Len(cmd) - 1) : cmd[i] = op
    THEN cmd[(CHOOSE i \in 1..(Len(cmd) - 1) :
                  cmd[i] = op /\ \A j \in 1..(i - 1) : cmd[j] # op) + 1]
    ELSE NoneStr

StdinOf(cmd)  == RedirectOf(cmd, "<")
StdoutOf(cmd) == RedirectOf(cmd, ">")

\* str.join(':') of the parts str.split(':') gives back.
RECURSIVE JoinColon(_)
JoinColon(parts) ==
    IF Len(parts) = 1 THEN parts[1]
    ELSE parts[1] \o ":" \o JoinColon(Tail(parts))

\* ------------------------------------------------------------------------
\* noaaportBlender.py: class NoaaportBlender
\* ------------------------------------------------------------------------
timeOut == "0.01"
fanoutServerAddress == "localhost:1201"
noaaportExecLines == << [feedType |-> "nwstg", logFile |-> "/tmp/nwstg.log"] >>
ldmHome == "/home/ldm"
noaaportPath == ldmHome \o "/src/noaaport"

\* The class attributes an instance starts with.
ClassAttrs ==
    [noaaportLogFile |-> "/tmp/noaaport_",
     blenderLogFile  |-> "/tmp/blender_",
     port            |-> "",
     FIFO_name       |-> "/tmp/blender_"]

\* A fanout address is kept as the parts split(':') yields.
Addresses == { <<"chico", "1201">>, <<"leno", "1202">>, <<"localhost">> }

AddressLists ==
    UNION { [1..n -> Addresses] : n \in 1..MaxFanout }

\* What parse_known_args can return (--fanout is required, nargs='+').
CliArgs ==
    [debugMode             : BOOLEAN,
     blenderLogFile        : {NoneStr, "/var/b.log"},
     noaaportLogFile       : {NoneStr, "/var/n.log"},
     feedTypePort          : {NoneStr, "1203"},
     fanoutServerAddresses : AddressLists]

NoCliArg ==
    [debugMode |-> FALSE, blenderLogFile |-> NoneStr, noaaportLogFile |-> NoneStr,
     feedTypePort |-> NoneStr, fanoutServerAddresses |-> <<>>]

\* makePipe: the name it returns, whether or not mkfifo ran or succeeded.
makePipe(self, feedTypePort) == self.FIFO_name \o feedTypePort \o ".fifo"

\* makePipe: the paths that exist afterwards.
makePipeFs(fs, works, pipeName) ==
    IF pipeName \notin fs /\ works THEN fs \cup {pipeName} ELSE fs

\* buildLogFilesAndFifo: whether cliArgs["fanoutServerAddresses"][0]
\* .split(':')[1] raises IndexError.
buildRaises(cliArgs) ==
    /\ cliArgs.feedTypePort = NoneStr
    /\ Len(cliArgs.fanoutServerAddresses[1]) < 2

\* buildLogFilesAndFifo: the instance's attributes afterwards.
buildLogFilesAndFifo(self, cliArgs) ==
    LET port == IF cliArgs.feedTypePort # NoneStr
                THEN cliArgs.feedTypePort
                ELSE cliArgs.fanoutServerAddresses[1][2]
        s1   == [self EXCEPT !.port = port]
        s2   == [s1 EXCEPT !.noaaportLogFile =
                    IF cliArgs.noaaportLogFile # NoneStr
                    THEN cliArgs.noaaportLogFile
                    ELSE s1.noaaportLogFile \o port \o ".log"]
        s3   == [s2 EXCEPT !.blenderLogFile =
                    IF cliArgs.blenderLogFile # NoneStr
                    THEN cliArgs.blenderLogFile
                    ELSE s2.blenderLogFile \o port \o ".log"]
    IN  [s3 EXCEPT !.FIFO_name = makePipe(s3, port)]

prepareNoaaportCmd(self) ==
    << noaaportPath \o "/noaaportIngester",
       "-l", self.noaaportLogFile, "<", self.FIFO_name, "&" >>

RECURSIVE HostWords(_)
HostWords(addrs) ==
    IF addrs = <<>> THEN <<>>
    ELSE <<JoinColon(Head(addrs))>> \o HostWords(Tail(addrs))

prepareBlenderCmd(self, cliArgs) ==
    << noaaportPath \o "/blender", "-t", timeOut >>
    \o (IF cliArgs.debugMode THEN <<"-x">> ELSE <<>>)
    \o << "-l", self.blenderLogFile >>
    \o HostWords(cliArgs.fanoutServerAddresses)
    \o << ">", self.FIFO_name, "&" >>

\* prepareTestNoaaportCmdsList: one command per entry of noaaportExecLines.
prepareTestNoaaportCmdsList(self) ==
    [k \in 1..Len(noaaportExecLines) |->
        << noaaportPath \o "/noaaportIngester", "-l", noaaportExecLines[k].logFile,
           "<", makePipe(self, noaaportExecLines[k].feedType), "&" >>]

\* The path prepareTestBlenderCmdsList calls samePipeline.
samePipeline(self, feedType) == self.FIFO_name \o "/" \o feedType

prepareTestBlenderCmdsList(self, cliArgs) ==
    [k \in 1..Len(noaaportExecLines) |->
        << noaaportPath \o "/blender", "-t", timeOut >>
        \o (IF cliArgs.debugMode THEN <<"-x">> ELSE <<>>)
        \o << "-l", noaaportExecLines[k].logFile, fanoutServerAddress,
              ">", samePipeline(self, noaaportExecLines[k].feedType), "&" >>]

\* ------------------------------------------------------------------------
\* noaaportBlender.py: main()
\* ------------------------------------------------------------------------
\* Names Python resolves besides main()'s locals: the module's globals
\* (its imports, the class, main) and the builtins.
ModuleNames ==
    {"os", "signal", "sys", "subprocess", "psutil", "time", "environ",
     "system", "Path", "argparse", "NoaaportBlender", "main"}
Builtins == {"True", "False", "None", "print", "exit", "input", "int"}

Resolves(name, locals) == name \in (locals \cup ModuleNames \cup Builtins)

\* The name the loop header of main() tests.
LoopCondition == "true"

\* noaaBPInst = NoaaportBlender(); cliArg = noaaBPInst.cliParser()
MainConstruct ==
    /\ nbPc = "start"
    /\ UNCHANGED NotBlender
    /\ \E ca \in CliArgs : cliArg' = ca
    /\ bound' = {"noaaBPInst", "cliArg"}
    /\ nbPc' = "build"
    /\ UNCHANGED <<nbExc, inst, noaaportCmd, blenderCmd, spawned,
                   testNoaaportCmds, testBlenderCmds, pipePc, ingestCmdList,
                   blendCmdList, printed, mkfifoWorks, fifos>>

\* noaaBPInst.buildLogFilesAndFifo(cliArg)
MainBuild ==
    /\ nbPc = "build"
    /\ UNCHANGED NotBlender
    /\ IF buildRaises(cliArg)
       THEN /\ nbPc' = "raised"
            /\ nbExc' = "IndexError"
            /\ UNCHANGED <<inst, fifos>>
       ELSE /\ nbPc' = "prepNoaaport"
            /\ inst' = buildLogFilesAndFifo(inst, cliArg)
            /\ fifos' = makePipeFs(fifos, mkfifoWorks, inst'.FIFO_name)
            /\ UNCHANGED nbExc
    /\ UNCHANGED <<bound, cliArg, noaaportCmd, blenderCmd, spawned,
                   testNoaaportCmds, testBlenderCmds, pipePc, ingestCmdList,
                   blendCmdList, printed, mkfifoWorks>>

\* noaaportCmd = noaaBPInst.prepareNoaaportCmd(cliArg)
MainPrepareNoaaport ==
    /\ nbPc = "prepNoaaport"
    /\ UNCHANGED NotBlender
    /\ noaaportCmd' = prepareNoaaportCmd(inst)
    /\ bound' = bound \cup {"noaaportCmd"}
    /\ nbPc' = "prepBlender"
    /\ UNCHANGED <<nbExc, cliArg, inst, blenderCmd, spawned, testNoaaportCmds,
                   testBlenderCmds, pipePc, ingestCmdList, blendCmdList,
                   printed, mkfifoWorks, fifos>>

\* blenderCmd = noaaBPInst.prepareBlenderCmd(cliArg)
MainPrepareBlender ==
    /\ nbPc = "prepBlender"
    /\ UNCHANGED NotBlender
    /\ blenderCmd' = prepareBlenderCmd(inst, cliArg)
    /\ bound' = bound \cup {"blenderCmd"}
    /\ nbPc' = "loop"
    /\ UNCHANGED <<nbExc, cliArg, inst, noaaportCmd, spawned, testNoaaportCmds,
                   testBlenderCmds, pipePc, ingestCmdList, blendCmdList,
                   printed, mkfifoWorks, fifos>>

\* while true:  -- the header evaluates the name; an unbound name raises
\* NameError, which nothing catches, and main() ends.  Control reaches the
\* loop body (the two Popen calls, the two waits) only if the name resolves.
MainLoopHeader ==
    /\ nbPc = "loop"
    /\ UNCHANGED NotBlender
    /\ IF Resolves(LoopCondition, bound)
       THEN nbPc' = "body" /\ UNCHANGED nbExc
       ELSE nbPc' = "raised" /\ nbExc' = "NameError"
    /\ UNCHANGED <<bound, cliArg, inst, noaaportCmd, blenderCmd, spawned,
                   testNoaaportCmds, testBlenderCmds, pipePc, ingestCmdList,
                   blendCmdList, printed, mkfifoWorks, fifos>>

\* A call of prepareTestNoaaportCmdsList on the instance.
TestNoaaportCmds ==
    /\ nbPc # "start"
    /\ UNCHANGED NotBlender
    /\ testNoaaportCmds = <<>>
    /\ testNoaaportCmds' = prepareTestNoaaportCmdsList(inst)
    /\ fifos' = makePipeFs(fifos, mkfifoWorks,
                           makePipe(inst, noaaportExecLines[1].feedType))
    /\ UNCHANGED <<nbPc, nbExc, bound, cliArg, inst, noaaportCmd, blenderCmd,
                   spawned, testBlenderCmds, pipePc, ingestCmdList,
                   blendCmdList, printed, mkfifoWorks>>

\* A call of prepareTestBlenderCmdsList on the instance.
TestBlenderCmds ==
    /\ nbPc # "start"
    /\ UNCHANGED NotBlender
    /\ testBlenderCmds = <<>>
    /\ testBlenderCmds' = prepareTestBlenderCmdsList(inst, cliArg)
    /\ UNCHANGED <<nbPc, nbExc, bound, cliArg, inst, noaaportCmd, blenderCmd,
                   spawned, testNoaaportCmds, pipePc, ingestCmdList,
                   blendCmdList, printed, mkfifoWorks, fifos>>

\* ------------------------------------------------------------------------
\* noaaportBlenderPipe.py: class NoaaportBlender and main()
\* ------------------------------------------------------------------------
PipeExecLines ==
    << [feedType |-> "nwstg",  logFile |-> "/var/logs/nwstg.log"],
       [feedType |-> "goes",   logFile |-> "/var/logs/goes.log"],
       [feedType |-> "nwstg2", logFile |-> "/var/logs/nwstg2.log"],
       [feedType |-> "oconus", logFile |-> "/var/logs/oconus.log"],
       [feedType |-> "nother", logFile |-> "/var/logs/nother.log"],
       [feedType |-> "wxwire", logFile |-> "/var/logs/wxwire.log"] >>
DESTINATION == "/tmp"

\* makePipe of noaaportBlenderPipe.py: the name it returns.
PipeMakePipe(feedType) == DESTINATION \o "/" \o feedType

\* The path prepareBlenderCmdsList calls samePipeline.
PipeSamePipeline(feedType) == DESTINATION \o "/" \o feedType

prepareNoaaportCmdsList ==
    [k \in 1..Len(PipeExecLines) |->
        << noaaportPath \o "/noaaportIngester", "-l", PipeExecLines[k].logFile,
           "<", PipeMakePipe(PipeExecLines[k].feedType), "&" >>]

prepareBlenderCmdsList(debugMode) ==
    [k \in 1..Len(PipeExecLines) |->
        << noaaportPath \o "/blender", "-t", timeOut >>
        \o (IF debugMode THEN <<"-x">> ELSE <<>>)
        \o << "-l", PipeExecLines[k].logFile,
              ">", PipeSamePipeline(PipeExecLines[k].feedType), "&" >>]

\* The lines the loop of main() prints through executeNoaaportIngester and
\* executeBlender, entries k..n.
RECURSIVE PipeLoopPrints(_, _, _)
PipeLoopPrints(ingest, blend, k) ==
    IF k > Len(PipeExecLines) THEN <<>>
    ELSE << <<"---------------------------">>, ingest[k], blend[k] >>
         \o PipeLoopPrints(ingest, blend, k + 1)

\* ingestCmdList = noaaBPInst.prepareNoaaportCmdsList()
PipeMainIngest ==
    /\ pipePc = "start"
    /\ UNCHANGED NotBlender
    /\ ingestCmdList' = prepareNoaaportCmdsList
    /\ fifos' = IF mkfifoWorks
                THEN fifos \cup { PipeMakePipe(PipeExecLines[k].feedType) :
                                     k \in 1..Len(PipeExecLines) }
                ELSE fifos
    /\ pipePc' = "blend"
    /\ UNCHANGED <<nbPc, nbExc, bound, cliArg, inst, noaaportCmd, blenderCmd,
                   spawned, testNoaaportCmds, testBlenderCmds, blendCmdList,
                   printed, mkfifoWorks>>

\* cliArg = noaaBPInst.cliParser(); blendCmdList = prepareBlenderCmdsList(cliArg)
PipeMainBlend ==
    /\ pipePc = "blend"
    /\ UNCHANGED NotBlender
    /\ \E debugMode \in BOOLEAN :
          /\ blendCmdList' = prepareBlenderCmdsList(debugMode)
          /\ printed' = printed \o prepareBlenderCmdsList(debugMode)
    /\ pipePc' = "execute"
    /\ UNCHANGED <<nbPc, nbExc, bound, cliArg, inst, noaaportCmd, blenderCmd,
                   spawned, testNoaaportCmds, testBlenderCmds, ingestCmdList,
                   mkfifoWorks, fifos>>

\* for entry in range(...): executeNoaaportIngester(...); executeBlender(...)
PipeMainExecute ==
    /\ pipePc = "execute"
    /\ UNCHANGED NotBlender
    /\ printed' = printed \o PipeLoopPrints(ingestCmdList, blendCmdList, 1)
    /\ pipePc' = "done"
    /\ UNCHANGED <<nbPc, nbExc, bound, cliArg, inst, noaaportCmd, blenderCmd,
                   spawned, testNoaaportCmds, testBlenderCmds, ingestCmdList,
                   blendCmdList, mkfifoWorks, fifos>>

BlenderInit ==
    /\ nbPc = "start"
    /\ nbExc = NoneStr
    /\ bound = {}
    /\ cliArg = NoCliArg
    /\ inst = ClassAttrs
    /\ noaaportCmd = <<>>
    /\ blenderCmd = <<>>
    /\ spawned = <<>>
    /\ testNoaaportCmds = <<>>
    /\ testBlenderCmds = <<>>
    /\ pipePc = "start"
    /\ ingestCmdList = <<>>
    /\ blendCmdList = <<>>
    /\ printed = <<>>
    /\ mkfifoWorks \in BOOLEAN
    /\ fifos \in {{}, {"/tmp/blender_1201.fifo"}}

BlenderNext ==
    \/ MainConstruct
    \/ MainBuild
    \/ MainPrepareNoaaport
    \/ MainPrepareBlender
    \/ MainLoopHeader
    \/ TestNoaaportCmds
    \/ TestBlenderCmds
    \/ PipeMainIngest
    \/ PipeMainBlend
    \/ PipeMainExecute


\* ------------------------------------------------------------------------
\* per-file-latency-parser.py
\* ------------------------------------------------------------------------
\* int(word): the words int() accepts, with their values; any other word
\* raises ValueError.
IntOf == ("0" :> 0) @@ ("1" :> 1) @@ ("-4" :> -4) @@ ("100" :> 100)
         @@ ("200" :> 200) @@ ("300" :> 300)

\* dateutil's parse(word).astimezone(pytz.utc): seconds since midnight UTC of
\* the words it accepts; any other word raises ValueError.
ArrivalOf == ("20151101T000010.000000Z" :> 10) @@ ("20151101T000020.000000Z" :> 20)

\* datetime.strptime(word, "%Y%m%d%H%M%S.%f"): likewise.
InsertOf == ("20151101000005.000000" :> 5) @@ ("20151101000008.000000" :> 8)

\* Words in which the regular expressions find 'mldm', 'Received', 'down7'
\* and 'Inserted'.
MldmWords     == {"mldm7[11]"}
ReceivedWords == {"Received:"}
Down7Words    == {"down7[12]"}
InsertedWords == {"Inserted:"}

\* re.search(r'.*first.*second', line) on the line whose columns are given.
Search(line, first, second) ==
    \E i \in 1..Len(line) : \E j \in i..Len(line) :
        i < j /\ line[i] \in first /\ line[j] \in second

Sentinel == <<-1, -1, -1>>
Returned(v) == [exc |-> NoneStr, val |-> v]
Raised(e)   == [exc |-> e, val |-> Sentinel]

\* The body both parsers share once the pattern has matched: the statements
\* in order, the first exception ending it.  sizeCol and timeCol are the
\* (0-based) columns of the size and of the insertion time.
ParseColumns(line, sizeCol, timeCol) ==
    IF line[Len(line)] \notin DOMAIN IntOf THEN Raised("ValueError")
    ELSE IF Len(line) < sizeCol + 1 THEN Raised("IndexError")
    ELSE IF line[sizeCol + 1] \notin DOMAIN IntOf THEN Raised("ValueError")
    ELSE IF line[1] \notin DOMAIN ArrivalOf THEN Raised("ValueError")
    ELSE IF Len(line) < timeCol + 1 THEN Raised("IndexError")
    ELSE IF line[timeCol + 1] \notin DOMAIN InsertOf THEN Raised("ValueError")
    ELSE Returned(<< IntOf[line[Len(line)]],
                     IntOf[line[sizeCol + 1]],
                     ArrivalOf[line[1]] - InsertOf[line[timeCol + 1]] >>)

parseMLDM(line) ==
    IF Search(line, MldmWords, ReceivedWords)
    THEN ParseColumns(line, 6, 7)
    ELSE Returned(Sentinel)

parseBackstop(line) ==
    IF Search(line, Down7Words, InsertedWords)
    THEN ParseColumns(line, 5, 6)
    ELSE Returned(Sentinel)

\* A store without the has_key test: the last line reporting an index wins.
StoreLast(dict, prodid, size, rxtime) ==
    (prodid :> <<size, rxtime>>) @@ dict

\* complete_dict after the two if-branches of extractLog's loop body.
StoreFirst(dict, prodid, size, rxtime) ==
    IF prodid \in DOMAIN dict THEN dict
    ELSE (prodid :> <<size, rxtime>>) @@ dict

\* Log lines -----------------------------------------------------------------
MldmLine(arrival, size, insert, index) ==
    << arrival, "host", "mldm7[11]", "NOTE", "mldm7.c", "Received:", size, insert,
       "IDS|DDPLUS", index >>

BackstopLine(arrival, size, insert, index) ==
    << arrival, "host", "down7[12]", "NOTE", "Inserted:", size, insert,
       "IDS|DDPLUS", index >>

T10 == "20151101T000010.000000Z"
T20 == "20151101T000020.000000Z"
I5  == "20151101000005.000000"
I8  == "20151101000008.000000"

LogLines ==
    { MldmLine(T10, "100", I5, "0"),
      MldmLine(T20, "200", I8, "0"),
      BackstopLine(T20, "300", I5, "0"),
      BackstopLine(T10, "100", I8, "1"),
      MldmLine(T20, "300", I5, "1"),
      MldmLine(T10, "100", I5, "-4"),
      << T10, "host", "ldmd[10]", "NOTE", "Starting" >>,
      << T10, "host", "mldm7[11]", "NOTE", "Received:" >>,
      MldmLine(T10, "1MB", I5, "1"),
      BackstopLine("Nov", "100", I8, "0") }

LogFiles == UNION { [1..n -> LogLines] : n \in 0..MaxLines }

\* with open(filename) as logfile
LogInit ==
    /\ logfile \in LogFiles
    /\ logPc = "scan"
    /\ logExc = NoneStr
    /\ logI = 1
    /\ complete_set = {}
    /\ complete_dict = << >>

LogIdle ==
    /\ logfile = << >>
    /\ logPc = "idle"
    /\ logExc = NoneStr
    /\ logI = 1
    /\ complete_set = {}
    /\ complete_dict = << >>

\* One pass of the loop "for i, line in enumerate(logfile)".
ExtractLine ==
    /\ logPc = "scan"
    /\ logI <= Len(logfile)
    /\ UNCHANGED NotLog
    /\ LET line == logfile[logI]
           m    == parseMLDM(line)
           b    == parseBackstop(line)
       IN  IF m.exc # NoneStr
           THEN /\ logPc' = "raised" /\ logExc' = m.exc
                /\ UNCHANGED <<logI, complete_set, complete_dict>>
           ELSE IF b.exc # NoneStr
           THEN /\ logPc' = "raised" /\ logExc' = b.exc
                /\ UNCHANGED <<logI, complete_set, complete_dict>>
           ELSE /\ IF m.val[1] >= 0
                   THEN /\ complete_set' = complete_set \cup {m.val[1]}
                        /\ complete_dict' =
                              StoreFirst(complete_dict, m.val[1], m.val[2], m.val[3])
                   ELSE IF b.val[1] >= 0
                   THEN /\ complete_set' = complete_set \cup {b.val[1]}
                        /\ complete_dict' =
                              StoreFirst(complete_dict, b.val[1], b.val[2], b.val[3])
                   ELSE UNCHANGED <<complete_set, complete_dict>>
                /\ logI' = logI + 1
                /\ UNCHANGED <<logPc, logExc>>
    /\ UNCHANGED logfile

\* return (complete_set, complete_dict)
ExtractReturn ==
    /\ logPc = "scan"
    /\ logI > Len(logfile)
    /\ UNCHANGED NotLog
    /\ logPc' = "returned"
    /\ UNCHANGED <<logfile, logExc, logI, complete_set, complete_dict>>

LogNext == ExtractLine \/ ExtractReturn

\* ------------------------------------------------------------------------
\* noaaportBlender.py: properties
\* ------------------------------------------------------------------------
\* main() has left its loop: the exception came from the loop, not from the
\* set-up before it.
MainLeftLoop == nbPc = "raised" /\ nbExc = "NameError"

\* C1: a cycle of main()'s loop spawns exactly two children, the first with
\* the noaaportIngester command line and the second with the blender command
\* line.  Stated on the state in which main() is over: the cycle it was in
\* has handed exactly these two command lines to Popen.
C1_CycleSpawnsIngesterAndBlender ==
    MainLeftLoop =>
        /\ Len(spawned) = 2
        /\ spawned[1] = noaaportCmd
        /\ spawned[2] = blenderCmd

\* C3: the loop of main() never terminates on its own.
C3_LoopNeverTerminates == ~MainLeftLoop

\* The FIFO the blender writes is the FIFO the ingester reads ...
\* ... for the commands main() builds,
ProductionSameFifo ==
    (noaaportCmd # <<>> /\ blenderCmd # <<>>) =>
        /\ StdoutOf(blenderCmd) = StdinOf(noaaportCmd)
        /\ StdinOf(noaaportCmd) = inst.FIFO_name

\* ... for the test command lists of noaaportBlender.py,
TestSameFifo ==
    (testNoaaportCmds # <<>> /\ testBlenderCmds # <<>>) =>
        \A k \in 1..Len(noaaportExecLines) :
            StdoutOf(testBlenderCmds[k]) = StdinOf(testNoaaportCmds[k])

\* ... and for the command lists of noaaportBlenderPipe.py.
PipeSameFifo ==
    (ingestCmdList # <<>> /\ blendCmdList # <<>>) =>
        \A k \in 1..Len(PipeExecLines) :
            /\ StdoutOf(blendCmdList[k]) = StdinOf(ingestCmdList[k])
            /\ StdinOf(ingestCmdList[k]) = PipeMakePipe(PipeExecLines[k].feedType)

\* C5: for every feed, the blender command redirects its standard output to
\* the FIFO path the noaaportIngester command of that feed reads its standard
\* input from, for the production builders and for the test list builders.
C5_BlenderWritesFifoIngesterReads ==
    ProductionSameFifo /\ TestSameFifo /\ PipeSameFifo

\* The part of C5 the code keeps: the commands of main() and the lists of
\* noaaportBlenderPipe.py.
C5_ProductionAndPipeSameFifo == ProductionSameFifo /\ PipeSameFifo

\* ------------------------------------------------------------------------
\* per-file-latency-parser.py: properties
\* ------------------------------------------------------------------------
\* What a scanned line reports: the tuple extractLog takes from it.
Reported(line) ==
    LET m == parseMLDM(line).val
        b == parseBackstop(line).val
    IN  IF m[1] >= 0 THEN m ELSE IF b[1] >= 0 THEN b ELSE Sentinel

\* The first of the lines 1..n that reports index.
FirstReporting(index, n) ==
    CHOOSE k \in 1..n :
        /\ Reported(logfile[k])[1] = index
        /\ \A j \in 1..(k - 1) : Reported(logfile[j])[1] # index

\* C6: the (size, latency) pair stored for a product index is the one parsed
\* from the first scanned line that reports the index; no later line with
\* the same index overwrites it.
C6_FirstOccurrenceWins ==
    LET n == logI - 1
        indexes == { Reported(logfile[k])[1] : k \in 1..n } \ {-1}
    IN  /\ DOMAIN complete_dict = indexes
        /\ complete_set = indexes
        /\ \A index \in indexes :
              LET r == Reported(logfile[FirstReporting(index, n)])
              IN  complete_dict[index] = <<r[2], r[3]>>

\* The scan has returned after two lines reported one index with different
\* pairs, an 'Inserted' line among them.
C6_LaterLineSameIndex ==
    /\ logPc = "returned"
    /\ \E j \in 1..Len(logfile) : \E k \in (j + 1)..Len(logfile) :
          LET rj == Reported(logfile[j])
              rk == Reported(logfile[k])
          IN  /\ rj[1] >= 0 /\ rj[1] = rk[1]
              /\ \A i \in 1..(j - 1) : Reported(logfile[i])[1] # rj[1]
              /\ <<rj[2], rj[3]>> # <<rk[2], rk[3]>>
              /\ Search(logfile[k], Down7Words, InsertedWords)
              /\ complete_dict[rj[1]] = <<rj[2], rj[3]>>

\* C7: parseMLDM and parseBackstop return a tuple, the sentinel for a line
\* without valid size or time, and never abort the scan.
C7_ParsersNeverAbort == logPc # "raised"

\* ------------------------------------------------------------------------
\* OESS circuit scripts: provision.py, remove.py, destroy.py, edit.py
\* ------------------------------------------------------------------------
PyNone  == [py |-> "None"]
Unbound == [py |-> "unbound"]

\* The scripts, by their place in the repository.
Provision     == "provision.py"
ProvisionOESS == "mcast_lib/OESS-Client/provision.py"
Remove        == "remove.py"
RemoveOESS    == "mcast_lib/OESS-Client/remove.py"
Destroy       == "destroy.py"
DestroyOESS   == "mcast_lib/OESS-Client/destroy.py"
Scripts == {Provision, ProvisionOESS, Remove, RemoveOESS, Destroy, DestroyOESS}

\* The name a script puts in front of its lines on sys.stderr.
Prefix(s) ==
    IF s \in {Provision, ProvisionOESS} THEN "provision.py: "
    ELSE IF s = Remove THEN "remove.py: "
    ELSE "destroy.py: "

\* What json.loads can return for a reply of provisioning.cgi.
Bodies ==
    { [results |-> [success |-> 1, circuit_id |-> "4711"]],
      [results |-> PyNone, error_text |-> "circuit does not exist"],
      [results |-> PyNone, error_text |-> "not authorized"] }

\* The outcome of urlopen/read/json.loads: a parsed body, or the exception
\* urlopen raised.
Replies ==
    { [transport |-> "ok", body |-> b] : b \in Bodies }
    \cup { [transport |-> e, body |-> Unbound] : e \in {"URLError", "HTTPError"} }

NoReply == [transport |-> "none", body |-> Unbound]

\* urllib2: HTTPError is a subclass of URLError.
Superclasses(e) == IF e = "HTTPError" THEN {"HTTPError", "URLError"} ELSE {e}

\* The except clauses after the try, in the order written.
ExceptClauses == << "URLError", "HTTPError" >>

\* The clause that handles exception e: the first whose class e is an
\* instance of; 0 when none does.
HandlerFor(e, clauses) ==
    IF \E i \in 1..Len(clauses) : clauses[i] \in Superclasses(e)
    THEN CHOOSE i \in 1..Len(clauses) :
            /\ clauses[i] \in Superclasses(e)
            /\ \A j \in 1..(i - 1) : clauses[j] \notin Superclasses(e)
    ELSE 0

\* The payload the handler of the clause puts in jsonData.
SyntheticPayload(clause) == [error_text |-> clause, results |-> PyNone]

\* jsonData after  try: urlopen ... json.loads  except URLError / HTTPError.
TryUrlopen(r) ==
    IF r.transport = "ok" THEN Returned(r.body)
    ELSE IF HandlerFor(r.transport, ExceptClauses) = 0 THEN Raised(r.transport)
    ELSE Returned(SyntheticPayload(
                     ExceptClauses[HandlerFor(r.transport, ExceptClauses)]))

\* urlopen ... json.loads without a try: the exception propagates.
Urlopen(r) ==
    IF r.transport = "ok" THEN Returned(r.body) ELSE Raised(r.transport)

\* edit_endpoint: what it returns, the parsed reply to its provision_circuit
\* request (return jsonData), or the exception its urlopen raised.
edit_endpoint(r) == Urlopen(r)

\* How a call of edit_endpoint can end before its provision_circuit request:
\* the 'del' branch of edit.py raises TypeError on link.append(er['link']).
EditRaises(s, p) == IF s = Remove /\ p = "del" THEN {NoneStr, "TypeError"}
                    ELSE {NoneStr}

\* The two account.py of the repository.
AccountSrc    == "account.py"
AccountClient == "OESS-Client/account.py"
AccountModules == {AccountSrc, AccountClient}

\* sys.argv: the feedtype, the description of the circuit looked for.
Feedtype == "NEXRAD2"

\* What get_existing_circuits can list for the workgroup.
ExistingCircuits ==
    { <<>>,
      << [description |-> "IDS", circuit_id |-> 4712] >>,
      << [description |-> "NEXRAD2", circuit_id |-> 4711] >>,
      << [description |-> "IDS", circuit_id |-> 4712],
         [description |-> "NEXRAD2", circuit_id |-> 4711] >>,
      << [description |-> "NEXRAD2", circuit_id |-> 4711],
         [description |-> "NEXRAD2", circuit_id |-> 4713] >> }

\* for er in searchResults1: if er['description'] == feedtype:
\*     circuit_id = er['circuit_id']
RECURSIVE LastMatch(_, _, _)
LastMatch(results, feedtype, circuit_id) ==
    IF results = <<>> THEN circuit_id
    ELSE LastMatch(Tail(results), feedtype,
                   IF Head(results).description = feedtype
                   THEN Head(results).circuit_id ELSE circuit_id)

\* getCtID: account.py starts from circuit_id = 0; OESS-Client/account.py
\* binds circuit_id only in the loop, so return circuit_id raises
\* UnboundLocalError when no description matched.
getCtID(module, results, feedtype) ==
    IF module = AccountSrc THEN Returned(LastMatch(results, feedtype, 0))
    ELSE IF \A k \in 1..Len(results) : results[k].description # feedtype
    THEN Raised("UnboundLocalError")
    ELSE Returned(LastMatch(results, feedtype, Unbound))

\* d[key]: KeyError when the dict has no such key.
HasKey(d, key) == key \in DOMAIN d

\* A remove.py that keeps edit_endpoint for circuits of two nodes too.
PathOfTwo(s, ct, nodes) ==
    IF s \in {Provision, ProvisionOESS}
    THEN IF ct = 0 THEN "new" ELSE "add"
    ELSE IF s \in {Remove, RemoveOESS}
    THEN IF nodes > 1 THEN "del" ELSE "remove_circuit"
    ELSE "remove_circuit"

\* The branch a script takes after its look-ups.
PathOf(s, ct, nodes) ==
    IF s \in {Provision, ProvisionOESS}
    THEN IF ct = 0 THEN "new" ELSE "add"
    ELSE IF s \in {Remove, RemoveOESS}
    THEN IF nodes > 2 THEN "del" ELSE "remove_circuit"
    ELSE "remove_circuit"

\* The request of a script: [exc, jsonData, searchResults] after it.
\* What a branch issues: the request it sends itself, or edit_endpoint.
IssuedBy(p) ==
    CASE p = "new" -> "provision_circuit"
      [] p = "add" -> "edit_endpoint add"
      [] p = "del" -> "edit_endpoint del"
      [] p = "remove_circuit" -> "remove_circuit"

\* The endpoint nodes of the circuit after the reply r to the request of
\* branch p, n before it: a null 'results' changes nothing.
RemainingAfter(p, r, n) ==
    IF r.transport # "ok" THEN n
    ELSE IF r.body.results = PyNone THEN n
    ELSE CASE p = "del" -> n - 1
           [] p = "remove_circuit" -> 0
           [] p = "add" -> n + 1
           [] p = "new" -> n

RequestOutcome(s, p, r) ==
    LET whole(o) ==   \* searchResults = edit.edit_endpoint(...)
            [exc |-> o.exc, jsonData |-> Unbound,
             searchResults |-> IF o.exc = NoneStr THEN o.val ELSE Unbound]
        field(o) ==   \* jsonData = ...; searchResults = jsonData['results']
            [exc |-> o.exc,
             jsonData |-> IF o.exc = NoneStr THEN o.val ELSE Unbound,
             searchResults |-> IF o.exc = NoneStr THEN o.val.results ELSE Unbound]
    IN  CASE s = Provision     /\ p = "new" -> field(Urlopen(r))
          [] s = Provision     /\ p = "add" -> whole(edit_endpoint(r))
          [] s = ProvisionOESS /\ p = "new" -> field(TryUrlopen(r))
          [] s = ProvisionOESS /\ p = "add" -> field(edit_endpoint(r))
          [] s = Remove        /\ p = "del" -> field(edit_endpoint(r))
          [] s = Remove        /\ p = "remove_circuit" -> field(TryUrlopen(r))
          [] s = RemoveOESS    /\ p = "del" -> whole(edit_endpoint(r))
          [] s = RemoveOESS    /\ p = "remove_circuit" -> field(Urlopen(r))
          [] s = Destroy       -> field(TryUrlopen(r))
          [] s = DestroyOESS   -> field(Urlopen(r))

\* The final if/else of a script: [exc, stdout, stderr, file, ulogger], the
\* lines it adds to each and the exception that ends it, if any.
Quiet(e) == [exc |-> e, stdout |-> <<>>, stderr |-> <<>>, file |-> <<>>,
             ulogger |-> <<>>]

ErrorText(s, jd) ==
    IF jd = Unbound THEN Quiet("NameError")
    ELSE IF ~HasKey(jd, "error_text") THEN Quiet("KeyError")
    ELSE IF s \in {RemoveOESS, DestroyOESS}
    THEN [Quiet(NoneStr) EXCEPT !.ulogger = <<jd.error_text>>]
    ELSE [Quiet(NoneStr) EXCEPT !.stderr = <<Prefix(s) \o jd.error_text \o "\n">>]

ReportOutcome(s, jd, sr) ==
    IF sr = PyNone THEN ErrorText(s, jd)
    ELSE CASE s \in {Provision, ProvisionOESS} ->
                 IF ~HasKey(sr, "circuit_id") THEN Quiet("KeyError")
                 ELSE [Quiet(NoneStr) EXCEPT
                          !.file   = <<sr.circuit_id \o "\n">>,
                          !.stdout = <<sr.circuit_id \o "\n">>]
           [] s = Remove ->
                 [Quiet(NoneStr) EXCEPT !.stderr = <<"remove.py: Success\n">>]
           [] s \in {RemoveOESS, DestroyOESS} ->
                 [Quiet(NoneStr) EXCEPT !.ulogger = <<"Remove.py: Success">>]
           [] s = Destroy ->   \* sys.stderr.write() takes one argument
                 Quiet("TypeError")

OessInit ==
    /\ script \in Scripts
    /\ oPc = "start"
    /\ oExc = NoneStr
    /\ ct_id = 0
    /\ path = NoneStr
    /\ reply = NoReply
    /\ jsonData = Unbound
    /\ searchResults = Unbound
    /\ stdout = <<>>
    /\ stderr = <<>>
    /\ circuit_id_log = <<>>
    /\ ulogger = <<>>
    /\ accountModule \in AccountModules
    /\ existing = <<>>
    /\ endpoints = 0
    /\ issued = <<>>
    /\ remaining = 0

OessIdle ==
    /\ script = NoneStr
    /\ oPc = "idle"
    /\ oExc = NoneStr
    /\ ct_id = 0
    /\ path = NoneStr
    /\ reply = NoReply
    /\ jsonData = Unbound
    /\ searchResults = Unbound
    /\ stdout = <<>>
    /\ stderr = <<>>
    /\ circuit_id_log = <<>>
    /\ ulogger = <<>>
    /\ accountModule = NoneStr
    /\ existing = <<>>
    /\ endpoints = 0
    /\ issued = <<>>
    /\ remaining = 0

\* readAccount, getWkGpID, getCtID and, in remove.py, get_circuit_details:
\* the circuit found (0: none) and the number of its endpoint nodes.
OessLookup ==
    /\ oPc = "start"
    /\ UNCHANGED NotOess
    /\ \E results \in ExistingCircuits : \E nodes \in 1..MaxNodes :
          LET ct == getCtID(accountModule, results, Feedtype)
          IN  /\ existing' = results
              /\ endpoints' = nodes
              /\ remaining' = nodes
              /\ oExc' = ct.exc
              /\ IF ct.exc = NoneStr
                 THEN /\ ct_id' = ct.val
                      /\ path' = PathOf(script, ct.val, nodes)
                      /\ oPc' = "request"
                 ELSE /\ oPc' = "raised"
                      /\ UNCHANGED <<ct_id, path>>
    /\ UNCHANGED <<script, reply, jsonData, searchResults, stdout, stderr,
                   circuit_id_log, ulogger, accountModule, issued>>

\* The provision_circuit or remove_circuit request, direct or through
\* edit_endpoint, up to the assignment of searchResults.
OessRequest ==
    /\ oPc = "request"
    /\ UNCHANGED NotOess
    /\ issued' = Append(issued, IssuedBy(path))
    /\ \E e \in EditRaises(script, path) : \E r \in Replies :
          IF e # NoneStr
          THEN /\ oExc' = e
               /\ oPc' = "raised"
               /\ UNCHANGED <<reply, jsonData, searchResults, remaining>>
          ELSE LET o == RequestOutcome(script, path, r)
               IN  /\ reply' = r
                   /\ jsonData' = o.jsonData
                   /\ searchResults' = o.searchResults
                   /\ remaining' = RemainingAfter(path, r, endpoints)
                   /\ oExc' = o.exc
                   /\ oPc' = IF o.exc = NoneStr THEN "report" ELSE "raised"
    /\ UNCHANGED <<script, ct_id, path, stdout, stderr, circuit_id_log, ulogger,
                   accountModule, existing, endpoints>>

\* if (searchResults == None): ... else: ...
OessReport ==
    /\ oPc = "report"
    /\ UNCHANGED NotOess
    /\ LET o == ReportOutcome(script, jsonData, searchResults)
       IN  /\ stdout' = stdout \o o.stdout
           /\ stderr' = stderr \o o.stderr
           /\ circuit_id_log' = circuit_id_log \o o.file
           /\ ulogger' = ulogger \o o.ulogger
           /\ oExc' = o.exc
           /\ oPc' = IF o.exc = NoneStr THEN "done" ELSE "raised"
    /\ UNCHANGED <<script, ct_id, path, reply, jsonData, searchResults,
                   accountModule, existing, endpoints, issued, remaining>>

OessNext == OessLookup \/ OessRequest \/ OessReport

\* ------------------------------------------------------------------------
\* OESS circuit scripts: properties
\* ------------------------------------------------------------------------
Ended == oPc \in {"done", "raised"}

\* The script ended after a reply was parsed.
EndedWithReply == Ended /\ reply.transport = "ok"

\* Everything the script emitted through sys.stderr or ulogger.
Emitted == stderr \o ulogger

\* C8: provision.py writes the circuit id to circuit_id.log and to standard
\* output exactly when 'results' of the parsed response is non-null, and
\* otherwise writes 'provision.py: <error_text>' to standard error, on the
\* create path and on the add-endpoint path.
C8_ProvisionReportsResults ==
    (script \in {Provision, ProvisionOESS} /\ EndedWithReply) =>
        IF reply.body.results # PyNone
        THEN /\ circuit_id_log = <<reply.body.results.circuit_id \o "\n">>
             /\ stdout = <<reply.body.results.circuit_id \o "\n">>
             /\ stderr = <<>>
        ELSE /\ stderr = <<"provision.py: " \o reply.body.error_text \o "\n">>
             /\ circuit_id_log = <<>>
             /\ stdout = <<>>

\* The failure line and the success line of remove.py and destroy.py.
FailureLines(text) ==
    { Prefix(script) \o text \o "\n", text }
SuccessLines ==
    { "remove.py: Success\n", "destroy.py: Success\n", "Remove.py: Success" }

\* C9: remove.py and destroy.py emit the failure line with the response's
\* error_text exactly when 'results' of the parsed response is null and the
\* 'Success' line otherwise, on the delete-endpoint path and on the
\* remove_circuit path; exactly one of the two lines per run.
C9_RemoveReportsResults ==
    (script \in {Remove, RemoveOESS, Destroy} /\ EndedWithReply) =>
        /\ Len(Emitted) = 1
        /\ IF reply.body.results = PyNone
           THEN Emitted[1] \in FailureLines(reply.body.error_text)
           ELSE Emitted[1] \in SuccessLines

\* C10: when the provision_circuit or remove_circuit call raises URLError or
\* HTTPError, the script does not abort: the failure line names the error
\* type, 'URLError' for a URLError and 'HTTPError' for an HTTPError.
C10_UrlErrorsReported ==
    ( /\ Ended
      /\ reply.transport \in {"URLError", "HTTPError"}
      /\ \/ script = Destroy
         \/ script = Remove /\ path = "remove_circuit"
         \/ script = ProvisionOESS /\ path = "new" ) =>
        /\ oPc = "done"
        /\ stderr = << Prefix(script) \o reply.transport \o "\n" >>

\* C13: remove.py issues remove_circuit exactly when the circuit has two or
\* fewer endpoint nodes; for a circuit of more than two it issues one
\* edit_endpoint 'del' and no remove_circuit, so that no run leaves the
\* circuit with fewer than two endpoint nodes.
C13_RemoveCircuitOnlyForTwoNodes ==
    (script \in {Remove, RemoveOESS} /\ oPc \in {"report", "done", "raised"}
        /\ path # NoneStr) =>
        /\ issued = IF endpoints > 2 THEN <<"edit_endpoint del">>
                    ELSE <<"remove_circuit">>
        /\ remaining = endpoints \/ remaining = 0 \/ remaining >= 2

\* remove.py took an endpoint off a circuit of three nodes.
C13_EndpointDeleted ==
    /\ script \in {Remove, RemoveOESS}
    /\ oPc = "done"
    /\ endpoints = 3
    /\ issued = <<"edit_endpoint del">>
    /\ remaining = 2

\* Whether a circuit of the workgroup has the feedtype as its description.
CircuitExists ==
    \E k \in 1..Len(existing) : existing[k].description = Feedtype

\* C14: provision.py creates a new circuit only when no circuit of the
\* workgroup has the feedtype as its description, getCtID returning 0 then;
\* when one has, it calls edit_endpoint 'add' for that circuit and sends no
\* request that creates a circuit.
C14_NewCircuitOnlyWhenNoneExists ==
    (script \in {Provision, ProvisionOESS} /\ oPc # "start") =>
        IF CircuitExists
        THEN /\ path = "add"
             /\ ct_id = existing[Len(existing)].circuit_id
             /\ issued \in {<<>>, <<"edit_endpoint add">>}
        ELSE /\ ct_id = 0
             /\ path = "new"
             /\ issued \in {<<>>, <<"provision_circuit">>}

\* ------------------------------------------------------------------------
\* OESS circuit scripts: edit.py and account.py
\* ------------------------------------------------------------------------
\* The edit scripts, by their place in the repository.
EditSrc    == "edit.py"
EditMcast  == "mcast_lib/OESS-Client/edit.py"
EditClient == "OESS-Client/edit.py"
EditV2     == "OESS-Client-V2/edit.py"
EditNested == "mcast_lib/OESS-Client/OESS-Client/edit.py"
EditScripts == {EditSrc, EditMcast, EditClient, EditV2, EditNested}

\* What the account file of a run can hold.
Accounts == { [username |-> "uva4api", passwd |-> "pw-uva"],
              [username |-> "ldm7",    passwd |-> "pw-ldm"] }
NoCred == [username |-> NoneStr, passwd |-> NoneStr]

\* readAccount: (username, passwd) of the file.
readAccount(file) == [username |-> file.username, passwd |-> file.passwd]

\* The quoted words 'username' and 'passwd' given to add_password.
QuotedCred == [username |-> "username", passwd |-> "passwd"]

\* The pair a script gives to add_password before a request: the variables
\* username and passwd, or the quoted words.
AddPassword(s, method, read) ==
    IF s = EditV2 /\ method \in {"get_shortest_path", "provision_circuit"}
    THEN QuotedCred
    ELSE read

DataCgi         == "data.cgi"
ProvisioningCgi == "provisioning.cgi"

\* urllib2.Request(url, urlencode(values)) sent through the opener that
\* holds the pair c.
Request(url, method, c, n, i, t, l) ==
    [url |-> url, method |-> method, username |-> c.username,
     passwd |-> c.passwd, node |-> n, interface |-> i, tag |-> t, link |-> l]

\* The network seen by get_shortest_path: a tree; UpPath[n] are the links
\* from n up to the root.
Nodes == {"a", "b", "c", "d"}
UpPath == [n \in Nodes |->
             CASE n = "a" -> <<>>
               [] n = "b" -> <<"a-b">>
               [] n = "c" -> <<"b-c", "a-b">>
               [] n = "d" -> <<"a-d">>]

Range(s) == { s[k] : k \in 1..Len(s) }

Reverse(s) == [k \in 1..Len(s) |-> s[Len(s) + 1 - k]]

\* 'results' of get_shortest_path for the nodes x and y: the names of the
\* links between them.
ShortestPath(x, y) ==
    LET onlyX == SelectSeq(UpPath[x], LAMBDA e : e \notin Range(UpPath[y]))
        onlyY == SelectSeq(UpPath[y], LAMBDA e : e \notin Range(UpPath[x]))
    IN  onlyX \o Reverse(onlyY)

\* account.getSPath: the list of the names er['link'] that are not None.
\* Each script is read against the account module its calls fit.
getSPath(node_1, node_2) == ShortestPath(node_1, node_2)

\* list.remove(x): without the first x.
ListRemove(s, x) ==
    LET k == CHOOSE j \in 1..Len(s) : s[j] = x /\ \A h \in 1..(j - 1) : s[h] # x
    IN  [j \in 1..(Len(s) - 1) |-> IF j < k THEN s[j] ELSE s[j + 1]]

\* if x not in s: s.append(x)
AppendIfNew(s, x) == IF x \in Range(s) THEN s ELSE Append(s, x)

\* if x in s: s.remove(x)
RemoveIfIn(s, x) == IF x \in Range(s) THEN ListRemove(s, x) ELSE s

\* for er in p: if er in l: l.remove(er)
RECURSIVE RemovePath(_, _)
RemovePath(l, p) ==
    IF p = <<>> THEN l ELSE RemovePath(RemoveIfIn(l, Head(p)), Tail(p))

\* for er in p: if er not in l: l.append(...). What is appended: the name
\* er, or er['link'] of a str er, which raises TypeError.
RECURSIVE AppendPath(_, _, _)
AppendPath(l, p, subscript) ==
    IF p = <<>> THEN [exc |-> NoneStr, link |-> l]
    ELSE IF Head(p) \in Range(l) THEN AppendPath(l, Tail(p), subscript)
    ELSE IF subscript THEN [exc |-> "TypeError", link |-> l]
    ELSE AppendPath(Append(l, Head(p)), Tail(p), subscript)

\* The endpoints of a circuit: interface and tag of the endpoint at a node.
InterfaceOf(n) == IF n = "d" THEN "et-2/0/0" ELSE "et-1/0/0"
TagOf(n) == "33" \o n
NewTags == {"33a", "400"}

\* The node order of the circuits get_circuit_details can describe.
EndpointLists ==
    { s \in UNION { [1..n -> Nodes] : n \in 2..MaxEndpoints } :
         \A j, k \in 1..Len(s) : j # k => s[j] # s[k] }

\* The links of a circuit the scripts built: the shortest paths from its
\* first node to the others.
RECURSIVE LinksFrom(_, _, _)
LinksFrom(first, rest, l) ==
    IF rest = <<>> THEN l
    ELSE LinksFrom(first, Tail(rest),
                   AppendPath(l, ShortestPath(first, Head(rest)), FALSE).link)

CircuitOf(s) ==
    [node      |-> s,
     interface |-> [k \in 1..Len(s) |-> InterfaceOf(s[k])],
     tag       |-> [k \in 1..Len(s) |-> TagOf(s[k])],
     link      |-> LinksFrom(s[1], Tail(s), <<>>)]

NoCircuit == [node |-> <<>>, interface |-> <<>>, tag |-> <<>>, link |-> <<>>]

\* The command line: the function and the endpoint it names.
EditArgs(c) ==
    { [function |-> "add", node_id |-> n, interface_id |-> InterfaceOf(n),
       vlan_id |-> t] : n \in Nodes, t \in NewTags }
    \cup
    { [function |-> "del", node_id |-> c.node[k],
       interface_id |-> c.interface[k], vlan_id |-> c.tag[k]]
        : k \in 1..Len(c.node) }

NoArgs == [function |-> NoneStr, node_id |-> NoneStr,
           interface_id |-> NoneStr, vlan_id |-> NoneStr]

\* The look-up requests a script sends before it reads the circuit.
Lookups(s) ==
    CASE s \in {EditClient, EditV2} -> <<"get_workgroups", "get_circuit_details">>
      [] s = EditNested -> <<"get_workgroups", "get_existing_circuits",
                             "get_circuit_details">>
      [] OTHER -> <<"get_circuit_details">>

\* Whether the script keeps the list of links.
KeepsLinks(s) == s # EditMcast

\* One get_shortest_path request of script s with the pair c.
PathRequest(s, c) ==
    Request(DataCgi, "get_shortest_path", AddPassword(s, "get_shortest_path", c),
            <<>>, <<>>, <<>>, <<>>)

\* The branch  function == 'add': [exc, node, interface, tag, link, sent].
AddBranch(s, c, a, n, i, t, l) ==
    LET same == [exc |-> NoneStr, node |-> n, interface |-> i, tag |-> t,
                 link |-> l, sent |-> <<>>]
        lists(x) == [x EXCEPT
                       !.node = IF a.node_id \in Range(n) THEN n
                                ELSE Append(n, IF s = EditClient
                                               THEN a.interface_id
                                               ELSE a.node_id),
                       !.interface = AppendIfNew(i, a.interface_id),
                       !.tag = AppendIfNew(t, a.vlan_id)]
    IN  IF ~KeepsLinks(s) THEN lists(same)
        ELSE lists([same EXCEPT
                      !.link = AppendPath(l, getSPath(n[1], a.node_id), FALSE).link,
                      !.sent = <<PathRequest(s, c)>>])

\* while index < len(node): the links to every other node, appended.
RECURSIVE DelLoop(_, _, _, _, _, _)
DelLoop(s, c, n, index, l, sent) ==
    IF ~(index < Len(n)) THEN [exc |-> NoneStr, link |-> l, sent |-> sent]
    ELSE LET o == AppendPath(l, getSPath(n[1], n[index + 1]),
                             s \in {EditSrc, EditNested})
             now == Append(sent, PathRequest(s, c))
         IN  IF o.exc # NoneStr
             THEN [exc |-> o.exc, link |-> o.link, sent |-> now]
             ELSE DelLoop(s, c, n, index + 1, o.link, now)

\* The branch  function == 'del': [exc, node, interface, tag, link, sent].
DelBranch(s, c, a, n, i, t, l) ==
    LET same == [exc |-> NoneStr, node |-> n, interface |-> i, tag |-> t,
                 link |-> l, sent |-> <<>>]
        n2 == RemoveIfIn(n, a.node_id)
        lists(x) == [x EXCEPT !.node = n2,
                              !.interface = RemoveIfIn(i, a.interface_id),
                              !.tag = RemoveIfIn(t, a.vlan_id)]
        l2 == RemovePath(l, getSPath(n[1], a.node_id))
        loop == DelLoop(s, c, n2, 1, l2, <<PathRequest(s, c)>>)
    IN  IF ~KeepsLinks(s) THEN lists(same)
        ELSE IF s = EditSrc /\ Len(n2) = 1
        THEN lists([same EXCEPT !.link = <<>>, !.sent = <<PathRequest(s, c)>>])
        ELSE lists([same EXCEPT !.exc = loop.exc, !.link = loop.link,
                                !.sent = loop.sent])

EditInit ==
    /\ edScript \in EditScripts
    /\ accountFile \in Accounts
    /\ circuit \in { CircuitOf(s) : s \in EndpointLists }
    /\ edArgs \in EditArgs(circuit)
    /\ edPc = "start"
    /\ edExc = NoneStr
    /\ cred = NoCred
    /\ node = <<>>
    /\ interface = <<>>
    /\ tag = <<>>
    /\ link = <<>>
    /\ requests = <<>>

EditIdle ==
    /\ edScript = NoneStr
    /\ accountFile = NoCred
    /\ circuit = NoCircuit
    /\ edArgs = NoArgs
    /\ edPc = "idle"
    /\ edExc = NoneStr
    /\ cred = NoCred
    /\ node = <<>>
    /\ interface = <<>>
    /\ tag = <<>>
    /\ link = <<>>
    /\ requests = <<>>

\* (username, passwd) = account.readAccount(...), or the read of the
\* password file, or the caller's readAccount before edit_endpoint.
EditReadAccount ==
    /\ edPc = "start"
    /\ UNCHANGED NotEdit
    /\ cred' = readAccount(accountFile)
    /\ edPc' = "lookup"
    /\ UNCHANGED <<edScript, accountFile, circuit, edArgs, edExc, node,
                   interface, tag, link, requests>>

\* The look-up requests and the four loops over the endpoints and links of
\* get_circuit_details.
EditCircuitDetails ==
    /\ edPc = "lookup"
    /\ UNCHANGED NotEdit
    /\ requests' = requests \o
          [k \in 1..Len(Lookups(edScript)) |->
              Request(DataCgi, Lookups(edScript)[k],
                      AddPassword(edScript, Lookups(edScript)[k], cred),
                      <<>>, <<>>, <<>>, <<>>)]
    /\ node' = circuit.node
    /\ interface' = circuit.interface
    /\ tag' = circuit.tag
    /\ link' = IF KeepsLinks(edScript) THEN circuit.link ELSE <<>>
    /\ edPc' = "branch"
    /\ UNCHANGED <<edScript, accountFile, circuit, edArgs, edExc, cred>>

\* if function == 'add': ...
EditAdd ==
    /\ edPc = "branch"
    /\ edArgs.function = "add"
    /\ UNCHANGED NotEdit
    /\ LET o == AddBranch(edScript, cred, edArgs, node, interface, tag, link)
       IN  /\ node' = o.node
           /\ interface' = o.interface
           /\ tag' = o.tag
           /\ link' = o.link
           /\ requests' = requests \o o.sent
           /\ edExc' = o.exc
           /\ edPc' = IF o.exc = NoneStr THEN "provision" ELSE "raised"
    /\ UNCHANGED <<edScript, accountFile, circuit, edArgs, cred>>

\* if function == 'del': ...
EditDel ==
    /\ edPc = "branch"
    /\ edArgs.function = "del"
    /\ UNCHANGED NotEdit
    /\ LET o == DelBranch(edScript, cred, edArgs, node, interface, tag, link)
       IN  /\ node' = o.node
           /\ interface' = o.interface
           /\ tag' = o.tag
           /\ link' = o.link
           /\ requests' = requests \o o.sent
           /\ edExc' = o.exc
           /\ edPc' = IF o.exc = NoneStr THEN "provision" ELSE "raised"
    /\ UNCHANGED <<edScript, accountFile, circuit, edArgs, cred>>

\* values = {'method' : 'provision_circuit', ...}; urlopen(req)
EditProvision ==
    /\ edPc = "provision"
    /\ UNCHANGED NotEdit
    /\ requests' = Append(requests,
          Request(ProvisioningCgi, "provision_circuit",
                  AddPassword(edScript, "provision_circuit", cred),
                  node, interface, tag, link))
    /\ edPc' = "done"
    /\ UNCHANGED <<edScript, accountFile, circuit, edArgs, edExc, cred, node,
                   interface, tag, link>>

EditNext ==
    \/ EditReadAccount
    \/ EditCircuitDetails
    \/ EditAdd
    \/ EditDel
    \/ EditProvision

\* ------------------------------------------------------------------------
\* edit.py: properties
\* ------------------------------------------------------------------------
\* The provision_circuit requests sent so far.
ProvisionRequests ==
    { requests[k] : k \in { j \in 1..Len(requests) :
                              requests[j].method = "provision_circuit" } }

\* C11: every request sent to data.cgi or provisioning.cgi carries the
\* username and the password of the account file of the run, and no other.
C11_RequestsUseAccountFile ==
    \A k \in 1..Len(requests) :
        /\ requests[k].username = accountFile.username
        /\ requests[k].passwd = accountFile.passwd

\* C19: after an edit 'add' the node, interface and tag lists sent in
\* provision_circuit contain the new node, the new interface and the new
\* tag, and a list that already held the value is sent as it was.
C19_AddedEndpointSent ==
    (edArgs.function = "add" /\ edPc = "done") =>
        \A r \in ProvisionRequests :
            /\ edArgs.node_id \in Range(r.node)
            /\ edArgs.interface_id \in Range(r.interface)
            /\ edArgs.vlan_id \in Range(r.tag)
            /\ edArgs.node_id \in Range(circuit.node) => r.node = circuit.node
            /\ edArgs.interface_id \in Range(circuit.interface)
                  => r.interface = circuit.interface
            /\ edArgs.vlan_id \in Range(circuit.tag) => r.tag = circuit.tag

\* The links on the shortest paths from the first node of n to its others.
LinksAmong(n) ==
    UNION { Range(ShortestPath(n[1], n[k])) : k \in 2..Len(n) }

\* C20: after an edit 'del' the link list sent in provision_circuit holds
\* every link on the shortest path from the first remaining node to each
\* other remaining node and no other link, so it is empty when a single
\* node remains; and the request is sent whenever two or more nodes remain.
C20_LinksOfRemainingNodes ==
    ( /\ edArgs.function = "del"
      /\ edPc \in {"done", "raised"}
      /\ KeepsLinks(edScript) ) =>
        LET rest == RemoveIfIn(circuit.node, edArgs.node_id)
        IN  /\ \A r \in ProvisionRequests :
                  /\ Range(r.link) = LinksAmong(rest)
                  /\ Len(rest) = 1 => r.link = <<>>
            /\ Len(rest) >= 2 => (edPc = "done" /\ ProvisionRequests # {})

\* ------------------------------------------------------------------------
\* scripts/ldmadmin.py: LDMCommandsHandler.execute
\* ------------------------------------------------------------------------
\* The keys of ldmCommandsDict in cmdDispatcher.
ldmCommandsDict ==
    { "start", "stop", "restart", "mkqueue", "delqueue", "mksurfqueue",
      "delsurfqueue", "newlog", "scour", "isrunning", "checkinsertion",
      "vetqueuesize", "check", "watch", "pqactcheck", "pqactHUP",
      "queuecheck", "config", "log", "tail", "clean", "checktime",
      "printmetrics", "addmetrics", "plotmetrics", "newmetrics",
      "updategempaktables" }

\* What envt.getLock() can return: -1 when the lock was not obtained.
GetLockReturns == {-1, 0, 1}

\* A getLock whose failure is looked for under another value.
LockFailedOnZero(r) == r = 0

\* if envt.getLock() == -1
LockFailed(r) == r = -1

\* An execute that takes the unlocked branch for every command.
AfterEnterUnlocked(toLock) == "dispatch"

\* if toLockOrNot == True: ... else: ...
AfterEnter(toLock) == IF toLock = TRUE THEN "getLock" ELSE "dispatch"

\* After self.cmdDispatcher(cmd, reg, envVar): envt.releaseLock() in the
\* locked branch, return status in the other.
AfterDispatch(toLock) == IF toLock = TRUE THEN "release" ELSE "return"

LdmInit ==
    /\ ldCmd \in ldmCommandsDict
    /\ isLockingRequired \in BOOLEAN
    /\ getLockReturn \in GetLockReturns
    /\ ldPc = "enter"
    /\ toLockOrNot = NoneStr
    /\ lockHeld = FALSE
    /\ status = NoneStr
    /\ returned = NoneStr
    /\ ldCalls = <<>>
    /\ dispatched = <<>>

LdmIdle ==
    /\ ldCmd = NoneStr
    /\ isLockingRequired = FALSE
    /\ getLockReturn = 0
    /\ ldPc = "idle"
    /\ toLockOrNot = NoneStr
    /\ lockHeld = FALSE
    /\ status = NoneStr
    /\ returned = NoneStr
    /\ ldCalls = <<>>
    /\ dispatched = <<>>

\* status = 0; toLockOrNot = parseCli.CLIParser().isLockingRequired(cmd)
ExecuteEnter ==
    /\ ldPc = "enter"
    /\ UNCHANGED NotLdm
    /\ status' = 0
    /\ toLockOrNot' = isLockingRequired
    /\ ldPc' = AfterEnter(isLockingRequired)
    /\ UNCHANGED <<ldCmd, isLockingRequired, getLockReturn, lockHeld, returned,
                   ldCalls, dispatched>>

\* if envt.getLock() == -1: print(...); status = -1; return status
ExecuteGetLock ==
    /\ ldPc = "getLock"
    /\ UNCHANGED NotLdm
    /\ ldCalls' = Append(ldCalls, "getLock")
    /\ IF LockFailed(getLockReturn)
       THEN /\ status' = -1
            /\ returned' = -1
            /\ ldPc' = "returned"
            /\ UNCHANGED lockHeld
       ELSE /\ lockHeld' = TRUE
            /\ ldPc' = "dispatch"
            /\ UNCHANGED <<status, returned>>
    /\ UNCHANGED <<ldCmd, isLockingRequired, getLockReturn, toLockOrNot,
                   dispatched>>

\* self.cmdDispatcher(cmd, reg, envVar), in either branch
ExecuteDispatch ==
    /\ ldPc = "dispatch"
    /\ UNCHANGED NotLdm
    /\ ldCalls' = Append(ldCalls, "cmdDispatcher")
    /\ dispatched' = Append(dispatched, [cmd |-> ldCmd, locked |-> lockHeld])
    /\ ldPc' = AfterDispatch(toLockOrNot)
    /\ UNCHANGED <<ldCmd, isLockingRequired, getLockReturn, toLockOrNot,
                   lockHeld, status, returned>>

\* envt.releaseLock()
ExecuteReleaseLock ==
    /\ ldPc = "release"
    /\ UNCHANGED NotLdm
    /\ ldCalls' = Append(ldCalls, "releaseLock")
    /\ lockHeld' = FALSE
    /\ ldPc' = "return"
    /\ UNCHANGED <<ldCmd, isLockingRequired, getLockReturn, toLockOrNot,
                   status, returned, dispatched>>

\* return status
ExecuteReturn ==
    /\ ldPc = "return"
    /\ UNCHANGED NotLdm
    /\ returned' = status
    /\ ldPc' = "returned"
    /\ UNCHANGED <<ldCmd, isLockingRequired, getLockReturn, toLockOrNot,
                   lockHeld, status, ldCalls, dispatched>>

LdmNext ==
    \/ ExecuteEnter
    \/ ExecuteGetLock
    \/ ExecuteDispatch
    \/ ExecuteReleaseLock
    \/ ExecuteReturn

C18_ExecuteStatus ==
    ldPc = "returned" =>
        IF isLockingRequired /\ getLockReturn = -1
        THEN /\ returned = -1
             /\ dispatched = <<>>
             /\ ldCalls = <<"getLock">>
        ELSE returned = 0

\* execute returned after getLock failed.
C18_LockRefused ==
    /\ ldPc = "returned"
    /\ isLockingRequired
    /\ getLockReturn = -1
    /\ returned = -1

\* ------------------------------------------------------------------------
\* Fabric/deploy_LDM7.py and mcast_lib/OESS-Client/Fabric/deploy_LDM6.py
\* ------------------------------------------------------------------------
DeployLDM7 == "Fabric/deploy_LDM7.py"
DeployLDM6 == "mcast_lib/OESS-Client/Fabric/deploy_LDM6.py"
DeployScripts == {DeployLDM7, DeployLDM6}

LDM_VER(s) == IF s = DeployLDM7 THEN "ldm-6.13.2.6" ELSE "ldm-6.12.15.42"
LDM_PACK_NAME(s) == LDM_VER(s) \o ".tar.gz"

\* Paths under /home/ldm the tasks make or need.
UtilDir(s)   == "util"
SourceDir(s) == LDM_VER(s) \o "/src"
EtcDir       == "etc"
LdmdConf     == "etc/ldmd.conf"
HomePaths(s) == {LDM_PACK_NAME(s), UtilDir(s), SourceDir(s), EtcDir, LdmdConf}

\* read_hosts: 'root@' before every host of standard input.
HostNames == <<"10.10.1.1", "10.10.1.2", "10.10.1.3">>
read_hosts(n) == [k \in 1..n |-> "root@" \o HostNames[k]]

\* The sender's address, which init_config compares iface with.
SenderIface == "10.10.1.1"

\* config_str of init_config for the host whose second address is iface.
config_str(s, iface) ==
    IF s = DeployLDM7
    THEN IF iface = SenderIface
         THEN "MULTICAST ANY 224.0.0.1:38800 1 10.10.1.1\nALLOW ANY ^.*$\nEXEC \"insert.sh\"\nEXEC \"cpu_mon.sh\"\nEXEC \"tc_mon.sh\""
         ELSE "RECEIVE ANY 10.10.1.1 " \o iface
    ELSE IF iface = SenderIface
         THEN "ALLOW ANY ^.*$\nEXEC \"insert.sh\"\nEXEC \"cpu_mon.sh\"\nEXEC \"tc_mon.sh\""
         ELSE "REQUEST ANY .* 10.10.1.1"

\* How a task can end: every command succeeded; its first command failed;
\* a later command failed.  A failed command that is not quiet makes fab
\* stop.
TaskEnds == {"ok", "failed first", "failed later"}

\* clear_home: cd /home/ldm; rm -rf *
clear_home(fs, end) == IF end = "failed first" THEN fs ELSE {}

\* upload_pack: put the archive and util/, then chown and chmod.
upload_pack(s, fs, end) ==
    IF end = "failed first" THEN fs
    ELSE fs \cup {LDM_PACK_NAME(s), UtilDir(s)}

\* Whether the first command of install_pack, gunzip -c <archive> | pax -r,
\* can succeed: the archive has to be there.
CanUnpack(s, fs) == LDM_PACK_NAME(s) \in fs

\* install_pack: unpack, configure, make install, make root-actions.
install_pack(s, fs, end) ==
    CASE end = "failed first" -> fs
      [] end = "failed later" -> fs \cup {SourceDir(s)}
      [] OTHER -> fs \cup {SourceDir(s), EtcDir}

\* Whether  echo '<config_str>' > etc/ldmd.conf  can succeed.
CanWriteConf(fs) == EtcDir \in fs

\* init_config: services, tc, regutil, then etc/ldmd.conf.
init_config(fs, end) ==
    IF end = "ok" THEN fs \cup {LdmdConf} ELSE fs

\* An order of the tasks with the upload before the clearing.
deployUploadFirst == <<"upload_pack", "clear_home", "install_pack", "init_config">>

\* deploy: the tasks in the order it calls them.
deploy == <<"clear_home", "upload_pack", "install_pack", "init_config">>

DeployInit ==
    /\ dpScript \in DeployScripts
    /\ hosts \in { read_hosts(n) : n \in 1..MaxHosts }
    /\ home \in [ 1..Len(hosts) ->
                    { {}, {LDM_PACK_NAME(dpScript)}, {EtcDir, LdmdConf},
                      HomePaths(dpScript) } ]
    /\ dpHost = 1
    /\ dpStep = 1
    /\ dpPc = "run"
    /\ ran = [h \in 1..Len(hosts) |-> <<>>]
    /\ conf = [h \in 1..Len(hosts) |-> NoneStr]

DeployIdle ==
    /\ dpScript = NoneStr
    /\ hosts = <<>>
    /\ home = <<>>
    /\ dpHost = 0
    /\ dpStep = 0
    /\ dpPc = "idle"
    /\ ran = <<>>
    /\ conf = <<>>

\* What every task does on return or failure: the next task of deploy, the
\* next host after the last task, the end of fab after a failure.
TaskReturns(task, end) ==
    /\ ran' = [ran EXCEPT ![dpHost] = Append(@, task)]
    /\ IF end # "ok"
       THEN /\ dpPc' = "aborted"
            /\ UNCHANGED <<dpHost, dpStep>>
       ELSE IF dpStep < Len(deploy)
       THEN /\ dpStep' = dpStep + 1
            /\ UNCHANGED <<dpHost, dpPc>>
       ELSE IF dpHost < Len(hosts)
       THEN /\ dpHost' = dpHost + 1
            /\ dpStep' = 1
            /\ UNCHANGED dpPc
       ELSE /\ dpPc' = "done"
            /\ UNCHANGED <<dpHost, dpStep>>
    /\ UNCHANGED <<dpScript, hosts>>

ClearHome ==
    /\ dpPc = "run"
    /\ deploy[dpStep] = "clear_home"
    /\ UNCHANGED NotDeploy
    /\ \E end \in {"ok", "failed first"} :
          /\ home' = [home EXCEPT ![dpHost] = clear_home(@, end)]
          /\ TaskReturns("clear_home", end)
    /\ UNCHANGED conf

UploadPack ==
    /\ dpPc = "run"
    /\ deploy[dpStep] = "upload_pack"
    /\ UNCHANGED NotDeploy
    /\ \E end \in TaskEnds :
          /\ home' = [home EXCEPT ![dpHost] = upload_pack(dpScript, @, end)]
          /\ TaskReturns("upload_pack", end)
    /\ UNCHANGED conf

InstallPack ==
    /\ dpPc = "run"
    /\ deploy[dpStep] = "install_pack"
    /\ UNCHANGED NotDeploy
    /\ \E end \in TaskEnds :
          /\ CanUnpack(dpScript, home[dpHost]) \/ end = "failed first"
          /\ home' = [home EXCEPT ![dpHost] = install_pack(dpScript, @, end)]
          /\ TaskReturns("install_pack", end)
    /\ UNCHANGED conf

InitConfig ==
    /\ dpPc = "run"
    /\ deploy[dpStep] = "init_config"
    /\ UNCHANGED NotDeploy
    /\ \E end \in TaskEnds :
          /\ CanWriteConf(home[dpHost]) \/ end # "ok"
          /\ home' = [home EXCEPT ![dpHost] = init_config(@, end)]
          /\ conf' = IF end = "ok"
                     THEN [conf EXCEPT ![dpHost] =
                             config_str(dpScript, HostNames[dpHost])]
                     ELSE conf
          /\ TaskReturns("init_config", end)

DeployNext == ClearHome \/ UploadPack \/ InstallPack \/ InitConfig

\* ------------------------------------------------------------------------
\* deploy: properties
\* ------------------------------------------------------------------------
IsPrefix(s, t) == Len(s) <= Len(t) /\ \A k \in 1..Len(s) : s[k] = t[k]

\* C15: on each host deploy runs clear_home, upload_pack, install_pack and
\* init_config in this order: the archive is uploaded after the home
\* directory was cleared and before it is unpacked and built, and ldmd.conf
\* is written only after the installation step has run.
C15_DeployOrder ==
    \A h \in 1..Len(hosts) :
        /\ IsPrefix(ran[h], <<"clear_home", "upload_pack", "install_pack",
                              "init_config">>)
        /\ (Len(ran[h]) >= 2 /\ LDM_PACK_NAME(dpScript) \in home[h]) =>
              ran[h][1] = "clear_home" /\ ran[h][2] = "upload_pack"
        /\ conf[h] # NoneStr =>
              /\ Len(ran[h]) = 4
              /\ ran[h][3] = "install_pack"
              /\ SourceDir(dpScript) \in home[h]
              /\ LdmdConf \in home[h]

\* deploy went through its four tasks on the last host.
C15_Deployed ==
    /\ dpPc = "done"
    /\ \A h \in 1..Len(hosts) :
          /\ Len(ran[h]) = 4
          /\ conf[h] = config_str(dpScript, HostNames[h])
          /\ home[h] = HomePaths(dpScript)

\* ------------------------------------------------------------------------
\* scour/testCscour.py: the two scenarios and their assertions
\* ------------------------------------------------------------------------
ASSERT_FILE_DELETED             == "Expect file to be deleted"
ASSERT_FILE_LINK_DELETED        == "Expect file and its symlink be deleted"
ASSERT_DIR_DELETED              == "Expect directory to be deleted"
ASSERT_NOT_DIR                  == "Expect 'not-a-directory' to be skipped"
ASSERT_DIR_LINK_NOT_DELETED     == "Expect directory and symlink NOT be deleted"
ASSERT_EXCLUDED_DIR_NOT_DELETED == "Expect directory to be excluded"
ASSERT_SUCCESS                  == "SUCCESS"
ASSERT_FAIL                     == "FAIL"

\* CommonFileSystem.dirList
dirList == << "/tmp/vesuvius", "/tmp/etna", "/tmp/etna/alt_dir",
              "/tmp/etna/exclude_me" >>

\* SymlinkDeletion.fileList and EmptyDirectoriesDeletion.fileList
SymlinkFileList ==
    << "/tmp/vesuvius/.scour$*.txt", "/tmp/vesuvius/precipitation.foo",
       "/tmp/vesuvius/precipitation.txt", "/tmp/etna/precipitation.txt",
       "/tmp/etna/alt_dir/precipitation.txt", "/tmp/etna/vesuvius.foo",
       "/tmp/etna/.scour$*.foo" >>
EmptyDirFileList ==
    << "/tmp/etna/precipitation.txt", "/tmp/etna/alt_dir/precipitation.txt" >>

\* SymlinkDeletion.fileToSymlinkDict, by link: the target of each symlink.
SymlinkTarget ==
    ("/tmp/vesuvius/sl_etna_file" :> "/tmp/etna/precipitation.txt")
    @@ ("/tmp/vesuvius/sl_etna_alt_dir" :> "/tmp/etna/alt_dir")

\* The other paths the assertions look at.
DirDoesNotExist == "/tmp/dirDoesNotExist"
ExcludedDir     == "/tmp/vesuvius/exclude_me"

ScourPaths ==
    Range(dirList) \cup Range(SymlinkFileList) \cup DOMAIN SymlinkTarget
    \cup {DirDoesNotExist, ExcludedDir}

\* The directory a path lies in.
UnderVesuvius ==
    { "/tmp/vesuvius/.scour$*.txt", "/tmp/vesuvius/precipitation.foo",
      "/tmp/vesuvius/precipitation.txt", "/tmp/vesuvius/sl_etna_file",
      "/tmp/vesuvius/sl_etna_alt_dir", "/tmp/vesuvius/exclude_me" }
UnderEtna ==
    { "/tmp/etna/precipitation.txt", "/tmp/etna/vesuvius.foo",
      "/tmp/etna/.scour$*.foo", "/tmp/etna/alt_dir", "/tmp/etna/exclude_me" }
DirOf(p) ==
    CASE p \in UnderVesuvius -> "/tmp/vesuvius"
      [] p \in UnderEtna -> "/tmp/etna"
      [] p = "/tmp/etna/alt_dir/precipitation.txt" -> "/tmp/etna/alt_dir"
      [] OTHER -> "/tmp"

\* A file system: what each path is, "absent", "file", "dir" or "link".
EmptyTmp == [p \in ScourPaths |-> "absent"]

\* os.path.islink, os.path.exists, os.path.isdir; the last two follow a
\* symlink to its target.
islink(fs, p) == fs[p] = "link"
exists(fs, p) ==
    IF fs[p] = "link" THEN fs[SymlinkTarget[p]] \notin {"absent", "link"}
    ELSE fs[p] # "absent"
isdir(fs, p) ==
    IF fs[p] = "link" THEN fs[SymlinkTarget[p]] = "dir" ELSE fs[p] = "dir"

\* shutil.rmtree(d): d and everything in it.
RECURSIVE Inside(_, _)
Inside(d, p) == p = d \/ (DirOf(p) # "/tmp" /\ Inside(d, DirOf(p)))
rmtree(fs, d) == [p \in ScourPaths |-> IF Inside(d, p) THEN "absent" ELSE fs[p]]

\* removeDirectories: rmtree of every directory of dirList that exists.
RECURSIVE removeDirectories(_, _)
removeDirectories(fs, dirs) ==
    IF dirs = <<>> THEN fs
    ELSE removeDirectories(IF exists(fs, Head(dirs)) THEN rmtree(fs, Head(dirs))
                           ELSE fs, Tail(dirs))

\* createDirectories: mkdir of every directory of dirList that is not there.
RECURSIVE createDirectories(_, _)
createDirectories(fs, dirs) ==
    IF dirs = <<>> THEN fs
    ELSE createDirectories(IF exists(fs, Head(dirs)) THEN fs
                           ELSE [fs EXCEPT ![Head(dirs)] = "dir"], Tail(dirs))

\* createFiles: open(file, "w+") of every file that is not there.
RECURSIVE createFiles(_, _)
createFiles(fs, files) ==
    IF files = <<>> THEN fs
    ELSE createFiles(IF exists(fs, Head(files)) THEN fs
                     ELSE [fs EXCEPT ![Head(files)] = "file"], Tail(files))

\* createSymlinks: os.symlink(target, link) of every link that is not there.
createSymlinks(fs) ==
    [p \in ScourPaths |->
        IF p \in DOMAIN SymlinkTarget /\ ~exists(fs, p) THEN "link" ELSE fs[p]]

\* One printed assertion line.
Line(verdict, expect, aPath) ==
    [verdict |-> verdict, expect |-> expect, aPath |-> aPath]

\* if not os.path.exists(aPath): SUCCESS  else: FAIL; status=1
ExpectGone(fs, expect, aPath) ==
    IF ~exists(fs, aPath)
    THEN [status |-> 0, printed |-> <<Line(ASSERT_SUCCESS, expect, aPath)>>]
    ELSE [status |-> 1, printed |-> <<Line(ASSERT_FAIL, expect, aPath)>>]

\* The symlink to a file, assertSymlink lines 364-374.
FileLinkCheck(fs, target, lnk) ==
    IF ~exists(fs, target) /\ ~islink(fs, lnk)
    THEN [status |-> 0,
          printed |-> << Line(ASSERT_SUCCESS, ASSERT_FILE_LINK_DELETED, lnk),
                         Line(ASSERT_SUCCESS, ASSERT_FILE_DELETED, target) >>]
    ELSE IF exists(fs, target) \/ islink(fs, lnk)
    THEN [status |-> 1,
          printed |-> <<Line(ASSERT_FAIL, "Un-Expected SymLink behavior!", lnk)>>]
    ELSE [status |-> 0, printed |-> <<>>]

\* A check of the directory symlink that accepts every state.
DirLinkUnchecked(fs, target, lnk) == [status |-> 0, printed |-> <<>>]

\* The symlink to a directory, assertSymlink lines 384-397.
DirLinkCheck(fs, target, lnk) ==
    IF exists(fs, target) /\ isdir(fs, target) /\ exists(fs, lnk)
       /\ islink(fs, lnk)
    THEN [status |-> 0,
          printed |-> <<Line(ASSERT_SUCCESS, ASSERT_DIR_LINK_NOT_DELETED, target)>>]
    ELSE IF ~exists(fs, target) \/ ~islink(fs, lnk)
    THEN [status |-> 1,
          printed |-> <<Line(ASSERT_FAIL, ASSERT_DIR_LINK_NOT_DELETED, target)>>]
    ELSE [status |-> 0, printed |-> <<>>]

\* status after a list of checks: 1 once a check set it.
RECURSIVE RunChecks(_)
RunChecks(checks) ==
    IF checks = <<>> THEN [status |-> 0, printed |-> <<>>]
    ELSE LET rest == RunChecks(Tail(checks))
         IN  [status |-> IF Head(checks).status = 1 THEN 1 ELSE rest.status,
              printed |-> Head(checks).printed \o rest.printed]

assertSymlink(fs) ==
    RunChecks(<<
        ExpectGone(fs, ASSERT_FILE_DELETED, "/tmp/etna/alt_dir/precipitation.txt"),
        ExpectGone(fs, ASSERT_FILE_DELETED, "/tmp/vesuvius/precipitation.txt"),
        ExpectGone(fs, ASSERT_FILE_DELETED, "/tmp/etna/precipitation.txt"),
        FileLinkCheck(fs, "/tmp/etna/precipitation.txt",
                      "/tmp/vesuvius/sl_etna_file"),
        DirLinkCheck(fs, "/tmp/etna/alt_dir", "/tmp/vesuvius/sl_etna_alt_dir") >>)

assertDirectoriesRemoved(fs) ==
    RunChecks(<<
        ExpectGone(fs, ASSERT_FILE_DELETED, "/tmp/etna/alt_dir/precipitation.txt"),
        ExpectGone(fs, ASSERT_FILE_DELETED, "/tmp/etna/precipitation.txt"),
        ExpectGone(fs, ASSERT_DIR_DELETED, "/tmp/etna/alt_dir"),
        ExpectGone(fs, ASSERT_DIR_DELETED, "/tmp/etna"),
        ExpectGone(fs, ASSERT_NOT_DIR, DirDoesNotExist),
        ExpectGone(fs, ASSERT_EXCLUDED_DIR_NOT_DELETED, ExcludedDir) >>)

SymlinkDeletion          == "SymlinkDeletion"
EmptyDirectoriesDeletion == "EmptyDirectoriesDeletion"

\* What /tmp can hold when main starts: nothing of the paths, or what an
\* earlier run left.
LeftInTmp ==
    { EmptyTmp,
      createSymlinks(createFiles(createDirectories(EmptyTmp, dirList),
                                 SymlinkFileList)),
      [createDirectories(EmptyTmp, dirList) EXCEPT ![ExcludedDir] = "dir"] }

ScourInit ==
    /\ scenario \in {SymlinkDeletion, EmptyDirectoriesDeletion}
    /\ tmp \in LeftInTmp
    /\ scPc = "directories"
    /\ scStatus = NoneStr
    /\ scPrinted = <<>>

ScourIdle ==
    /\ scenario = NoneStr
    /\ tmp = EmptyTmp
    /\ scPc = "idle"
    /\ scStatus = NoneStr
    /\ scPrinted = <<>>

\* main: CommonFileSystem.removeDirectories, then createDirectories
ScourDirectories ==
    /\ scPc = "directories"
    /\ UNCHANGED NotScour
    /\ tmp' = createDirectories(removeDirectories(tmp, dirList), dirList)
    /\ scPc' = "files"
    /\ UNCHANGED <<scenario, scStatus, scPrinted>>

\* runScenario: createFiles, createSymlinks, markEligibleForDeletion
ScourFiles ==
    /\ scPc = "files"
    /\ UNCHANGED NotScour
    /\ tmp' = IF scenario = SymlinkDeletion
              THEN createSymlinks(createFiles(tmp, SymlinkFileList))
              ELSE createFiles(tmp, EmptyDirFileList)
    /\ scPc' = "scour"
    /\ UNCHANGED <<scenario, scStatus, scPrinted>>

\* runScenario: executeCscour, the run of ./scour -v -d -e ...; it deletes
\* some of what is there, a directory only with everything in it.
ScourExecute ==
    /\ scPc = "scour"
    /\ UNCHANGED NotScour
    /\ \E gone \in SUBSET { p \in ScourPaths : tmp[p] # "absent" } :
          /\ \A p \in ScourPaths :
                (DirOf(p) \in gone /\ tmp[p] # "absent") => p \in gone
          /\ tmp' = [p \in ScourPaths |-> IF p \in gone THEN "absent" ELSE tmp[p]]
    /\ scPc' = "assert"
    /\ UNCHANGED <<scenario, scStatus, scPrinted>>

\* runScenario: return self.assertSymlink() / assertDirectoriesRemoved()
ScourAssert ==
    /\ scPc = "assert"
    /\ UNCHANGED NotScour
    /\ LET o == IF scenario = SymlinkDeletion THEN assertSymlink(tmp)
                ELSE assertDirectoriesRemoved(tmp)
       IN  /\ scStatus' = o.status
           /\ scPrinted' = o.printed
    /\ scPc' = "done"
    /\ UNCHANGED <<scenario, tmp>>

ScourNext == ScourDirectories \/ ScourFiles \/ ScourExecute \/ ScourAssert

\* ------------------------------------------------------------------------
\* testCscour.py: properties
\* ------------------------------------------------------------------------
\* C16: assertDirectoriesRemoved reports SUCCESS for the check of the
\* excluded directory only if that directory still exists after scour has
\* run, and sets status 1 if it no longer exists.
C16_ExcludedDirectoryKept ==
    (scenario = EmptyDirectoriesDeletion /\ scPc = "done") =>
        /\ \A k \in 1..Len(scPrinted) :
              ( /\ scPrinted[k].expect = ASSERT_EXCLUDED_DIR_NOT_DELETED
                /\ scPrinted[k].verdict = ASSERT_SUCCESS )
              => exists(tmp, ExcludedDir)
        /\ ~exists(tmp, ExcludedDir) => scStatus = 1

\* C17: assertSymlink returns 0 exactly when the three precipitation.txt
\* files are gone, the symlink sl_etna_file is gone, and /tmp/etna/alt_dir
\* and its symlink sl_etna_alt_dir are still a directory and a symlink; it
\* returns 1 in every other state scour can leave.
C17_AssertSymlinkStatus ==
    (scenario = SymlinkDeletion /\ scPc = "done") =>
        scStatus =
            IF /\ tmp["/tmp/etna/alt_dir/precipitation.txt"] = "absent"
               /\ tmp["/tmp/vesuvius/precipitation.txt"] = "absent"
               /\ tmp["/tmp/etna/precipitation.txt"] = "absent"
               /\ tmp["/tmp/vesuvius/sl_etna_file"] = "absent"
               /\ tmp["/tmp/etna/alt_dir"] = "dir"
               /\ tmp["/tmp/vesuvius/sl_etna_alt_dir"] = "link"
            THEN 0 ELSE 1

\* assertSymlink returned 0 with the directory and its symlink in place.
C17_SymlinkScenarioPassed ==
    /\ scenario = SymlinkDeletion
    /\ scPc = "done"
    /\ scStatus = 0
    /\ tmp["/tmp/etna/alt_dir"] = "dir"
    /\ tmp["/tmp/vesuvius/sl_etna_alt_dir"] = "link"
    /\ tmp["/tmp/vesuvius/sl_etna_file"] = "absent"

\* ------------------------------------------------------------------------
\* noaaport/blenderAdmin.py: Blender.checkRunning and checkProcessAndKill
\* ------------------------------------------------------------------------
\* A line of  ps -ef | grep -v grep | grep -i blender | grep -v blenderAdmin:
\* the owner, the process id (line.split()[1]) and the command.
AdminUser == "ldm"
PsUsers   == {"ldm", "root"}
PsPids    == {4001, 4002, 4003}
PsCmds    == {"blender", "testBlender"}
PsLine(uid, pid, cmd) == [uid |-> uid, pid |-> pid, cmd |-> cmd]

\* What check_output can return: up to MaxProcs lines, one per process.
PsOutputs ==
    { s \in UNION { [1..n -> [uid : PsUsers, pid : PsPids, cmd : PsCmds]]
                      : n \in 0..MaxProcs } :
         \A j, k \in 1..Len(s) : j < k => s[j].pid < s[k].pid }

\* What the user types at input(): a str, as the list of its characters.
Answers ==
    { <<"Y">>, <<"Y", " ">>, <<" ", "Y">>, <<"y">>, <<"n">>, <<>>,
      <<"Y", "e", "s">> }

\* str.rstrip(): without the white space at the end.
Whitespace == {" ", "\t", "\n", "\r"}
RECURSIVE rstrip(_)
rstrip(s) ==
    IF s # <<>> /\ s[Len(s)] \in Whitespace
    THEN rstrip(SubSeq(s, 1, Len(s) - 1)) ELSE s

\* if 'Y' == go.rstrip()
Confirmed(go) == <<"Y">> = rstrip(go)

\* psutil.Process(pid) of a process that is gone raises NoSuchProcess;
\* p.kill() of a process of another user raises AccessDenied.
ProcessRaises(pid, running) ==
    IF pid \in running THEN NoneStr ELSE "NoSuchProcess"
KillRaises(line) ==
    IF line.uid = AdminUser THEN NoneStr ELSE "AccessDenied"

AdminInit ==
    /\ psLines \in PsOutputs
    /\ alive = { psLines[k].pid : k \in 1..Len(psLines) }
    /\ adPc = "start"
    /\ adIndex = 0
    /\ adExc = NoneStr
    /\ prompts = <<>>
    /\ killed = {}

AdminIdle ==
    /\ psLines = <<>>
    /\ alive = {}
    /\ adPc = "idle"
    /\ adIndex = 0
    /\ adExc = NoneStr
    /\ prompts = <<>>
    /\ killed = {}

\* proc = subprocess.check_output(cmd_proc, shell=True): the pipeline ends
\* with status 1 when grep finds no line, and check_output raises.
AdminCheckOutput ==
    /\ adPc = "start"
    /\ UNCHANGED NotAdmin
    /\ IF psLines = <<>>
       THEN adExc' = "CalledProcessError" /\ adPc' = "done" /\ adIndex' = adIndex
       ELSE adExc' = adExc /\ adPc' = "line" /\ adIndex' = 1
    /\ UNCHANGED <<psLines, alive, prompts, killed>>

\* One turn of  for line in proc.decode().splitlines(): psutil.Process,
\* input, the test of the answer and p.kill(); an exception leaves the loop
\* through  except Exception as e: pass.
AdminLine ==
    /\ adPc = "line"
    /\ UNCHANGED NotAdmin
    /\ LET line == psLines[adIndex]
           next == IF adIndex = Len(psLines) THEN "done" ELSE "line"
       IN  IF ProcessRaises(line.pid, alive) # NoneStr
           THEN /\ adExc' = ProcessRaises(line.pid, alive)
                /\ adPc' = "done"
                /\ UNCHANGED <<adIndex, alive, prompts, killed>>
           ELSE \E eof \in BOOLEAN : \E go \in IF eof THEN {<<>>} ELSE Answers :
                  /\ prompts' = Append(prompts,
                                       [pid |-> line.pid, go |-> go, eof |-> eof])
                  /\ IF eof
                     THEN /\ adExc' = "EOFError"
                          /\ adPc' = "done"
                          /\ UNCHANGED <<adIndex, alive, killed>>
                     ELSE IF ~Confirmed(go)
                     THEN /\ adExc' = adExc
                          /\ adPc' = next
                          /\ adIndex' = adIndex + 1
                          /\ UNCHANGED <<alive, killed>>
                     ELSE IF KillRaises(line) # NoneStr
                     THEN /\ adExc' = KillRaises(line)
                          /\ adPc' = "done"
                          /\ UNCHANGED <<adIndex, alive, killed>>
                     ELSE /\ killed' = killed \cup {line.pid}
                          /\ alive' = alive \ {line.pid}
                          /\ adExc' = adExc
                          /\ adPc' = next
                          /\ adIndex' = adIndex + 1
    /\ UNCHANGED psLines

\* A process of the list ends by itself while the loop waits at input().
AdminProcessExits ==
    /\ adPc = "line"
    /\ UNCHANGED NotAdmin
    /\ \E k \in (adIndex + 1)..Len(psLines) :
          /\ psLines[k].pid \in alive
          /\ alive' = alive \ {psLines[k].pid}
    /\ UNCHANGED <<psLines, adPc, adIndex, adExc, prompts, killed>>

AdminNext == AdminCheckOutput \/ AdminLine \/ AdminProcessExits

\* ------------------------------------------------------------------------
\* blenderAdmin.py: properties
\* ------------------------------------------------------------------------
\* The prompts shown for the process pid.
PromptsFor(pid) == { k \in 1..Len(prompts) : prompts[k].pid = pid }

\* C21: when checkRunning has returned, every process of the list that is
\* still running or was killed has been prompted for exactly once, and a
\* process was killed if and only if the answer to its prompt was exactly
\* 'Y'.
C21_PromptedAndKilledOnY ==
    adPc = "done" =>
        \A n \in 1..Len(psLines) :
            LET pid == psLines[n].pid
            IN  /\ pid \in alive \cup killed => Cardinality(PromptsFor(pid)) = 1
                /\ pid \in killed <=>
                      \E k \in PromptsFor(pid) :
                          ~prompts[k].eof /\ prompts[k].go = <<"Y">>

\* ------------------------------------------------------------------------
\* Specifications
\* ------------------------------------------------------------------------
BlenderIdle ==
    /\ nbPc = "idle"
    /\ nbExc = NoneStr
    /\ bound = {}
    /\ cliArg = NoCliArg
    /\ inst = ClassAttrs
    /\ noaaportCmd = <<>>
    /\ blenderCmd = <<>>
    /\ spawned = <<>>
    /\ testNoaaportCmds = <<>>
    /\ testBlenderCmds = <<>>
    /\ pipePc = "idle"
    /\ ingestCmdList = <<>>
    /\ blendCmdList = <<>>
    /\ printed = <<>>
    /\ mkfifoWorks = TRUE
    /\ fifos = {}

InitBlender ==
    /\ BlenderInit
    /\ LogIdle
    /\ OessIdle
    /\ EditIdle
    /\ LdmIdle
    /\ DeployIdle
    /\ ScourIdle
    /\ AdminIdle

InitLog ==
    /\ LogInit
    /\ BlenderIdle
    /\ OessIdle
    /\ EditIdle
    /\ LdmIdle
    /\ DeployIdle
    /\ ScourIdle
    /\ AdminIdle

InitOess ==
    /\ OessInit
    /\ BlenderIdle
    /\ LogIdle
    /\ EditIdle
    /\ LdmIdle
    /\ DeployIdle
    /\ ScourIdle
    /\ AdminIdle

InitEdit ==
    /\ EditInit
    /\ BlenderIdle
    /\ LogIdle
    /\ OessIdle
    /\ LdmIdle
    /\ DeployIdle
    /\ ScourIdle
    /\ AdminIdle

InitLdm ==
    /\ LdmInit
    /\ BlenderIdle
    /\ LogIdle
    /\ OessIdle
    /\ EditIdle
    /\ DeployIdle
    /\ ScourIdle
    /\ AdminIdle

InitDeploy ==
    /\ DeployInit
    /\ BlenderIdle
    /\ LogIdle
    /\ OessIdle
    /\ EditIdle
    /\ LdmIdle
    /\ ScourIdle
    /\ AdminIdle

InitScour ==
    /\ ScourInit
    /\ BlenderIdle
    /\ LogIdle
    /\ OessIdle
    /\ EditIdle
    /\ LdmIdle
    /\ DeployIdle
    /\ AdminIdle

InitAdmin ==
    /\ AdminInit
    /\ BlenderIdle
    /\ LogIdle
    /\ OessIdle
    /\ EditIdle
    /\ LdmIdle
    /\ DeployIdle
    /\ ScourIdle

SpecBlender == InitBlender /\ [][BlenderNext]_vars
SpecLog == InitLog /\ [][LogNext]_vars
SpecOess == InitOess /\ [][OessNext]_vars
SpecEdit == InitEdit /\ [][EditNext]_vars
SpecLdm == InitLdm /\ [][LdmNext]_vars
SpecDeploy == InitDeploy /\ [][DeployNext]_vars
SpecScour == InitScour /\ [][ScourNext]_vars
SpecAdmin == InitAdmin /\ [][AdminNext]_vars

====
